---------------------------- MODULE Spec2Model ----------------------------
(***************************************************************************)
(* Model of the ETF arbitrage engine of Rotman_ProfitProhets:              *)
(*   - RITClient._request, the retrying transport                          *)
(*       (src/ETFArbitrage/rit_client.py, src/ETFArbitrage/etf_arb_bot.py) *)
(*     and the one-shot wrappers _get/_post/_delete of the single-file bot *)
(*   - the tender decision, unwind and loop of the single-file bot         *)
(*       (src/ETF Arbitrage/etf_arb_bot.py)                                *)
(*   - the tender decision and trading loop of the modular trader          *)
(*       (src/ETFArbitrage/strategy.py, trader.py, executor.py)            *)
(*                                                                         *)
(* Five specifications share the variables: Spec (the trading loop),       *)
(* SpecClient (one transport serving calls), SpecDecide (the decision      *)
(* procedures applied to single offers), SpecSlice (the slicers called     *)
(* with every quantity) and SpecUnwind (one unwind of the single-file bot  *)
(* from every position).                                                   *)
(*                                                                         *)
(* Units.  Durations are counted in half seconds (0.5 s = 1), so that the  *)
(* backoff base 0.5 and a fractional advised wait such as 1.5 s are        *)
(* integers.  Prices are in cents; the FX rate and the CAD amounts that    *)
(* are compared are rationals [n, d], d > 0.                               *)
(***************************************************************************)
EXTENDS Integers, Sequences, FiniteSets, TLC

VARIABLES
    \* ---- RITClient._request ----
    c_variant,      \* which transport runs: the RITClient of "rit_client" or of
                    \* "etf_arb_bot", or the wrappers "bot_http" of the single file
    c_max_retries,  \* the retry bound the session is set up with
                    \* (self.max_retries; the wrappers take none and read none)
    c_pc,           \* "idle" | "loop" | "returned" | "raised"
    c_req,          \* (method, path) of the call in progress
    c_attempt,      \* local variable attempt
    c_sent,         \* requests handed to session.request, in order
    c_statuses,     \* status codes received, in order
    c_sleeps,       \* arguments of time.sleep, in order (half seconds)
    c_last,         \* the last response received
    c_result,       \* what the call returned or raised
    c_msg           \* status and body named in the message of the raised error

cvars == <<c_variant, c_max_retries, c_pc, c_req, c_attempt, c_sent,
           c_statuses, c_sleeps, c_last, c_result, c_msg>>

VARIABLES
    \* ---- the trading loop ----
    engine,         \* which program runs: "bot" (single file) | "trader" (modular)
    e_pc,           \* position of the loop
    e_tick,         \* tick of the case at the top of the pass; only the bot
                    \* reads it (get_tick)
    e_secs,         \* secs / quotes the cycle prices from
    e_pos,          \* RITC position in the rows last read
    e_gross,        \* gross of trader.main_loop
    e_gross_limit,  \* gross_limit of trader.main_loop
    e_left,         \* offers of the fetched feed the for-loop has not reached
    e_cur,          \* the offer evaluated last in this cycle and what was done
    e_unw,          \* locals of the unwind in progress
    e_slice,        \* locals of the slicing call in progress
    e_log,          \* mutating requests sent since the current offer (or the
                    \* cycle, or the spot step) began, in order
    e_auth,         \* some venue call of the loop was answered 401
    e_fresh         \* the positions the pass holds were read after the last
                    \* accept, conversion or order that went through

evars == <<engine, e_pc, e_tick, e_secs, e_pos, e_gross, e_gross_limit, e_left,
           e_cur, e_unw, e_slice, e_log, e_auth, e_fresh>>

VARIABLES
    \* ---- a computation on its own: the tender decision applied to one
    \*      offer, the prices of one pass, the option orders of one tick ----
    d_pc,           \* "off" | "input" | "bot" | "strategy" | "fair_bot" |
                    \* "fair_strategy"; "top" | "held" | "priced";
                    \* "signals" | "raised"
    d_in,           \* the offer, the instrument rows and the book it is given;
                    \* the rows held and fetched; the signals left and the
                    \* gross the tick began with
    d_out           \* what the decision procedure returned; the fair value
                    \* computed; the tracked gross and the last order

dvars == <<d_pc, d_in, d_out>>

vars == <<cvars, evars, dvars>>

-----------------------------------------------------------------------------
(* Bounds of the model *)

\* largest max_retries a client is constructed with
MaxRetries == 4

\* most reads of the rows in one pass
MaxFetches == 2

\* most signals with a decision in one tick
MaxSignals == 3

\* most offers one read of the pending-offers feed returns
MaxTenders == 2

\* most conversion attempts followed within one unwind
MaxConvs == 3

-----------------------------------------------------------------------------
(* RITClient._request *)

\* wait = 1 when neither header nor body gives one (1 s, in half seconds)
DefaultWait == 2

\* the two copies of class RITClient
RITClients == {"rit_client", "etf_arb_bot"}

\* a backoff that grows by a fixed step instead of doubling
BackoffLinear(attempt) == attempt

\* 0.5 * (2 ** (attempt - 1)), in half seconds
Backoff(attempt) == 2 ^ (attempt - 1)

NoValue == [k |-> "absent", v |-> 0]

\* Retry-After header values: absent, "2", "1.5", "soon"
RetryAfterHeaders ==
    { NoValue,
      [k |-> "int",   v |-> 4],
      [k |-> "float", v |-> 3],
      [k |-> "junk",  v |-> 0] }

\* 429 bodies: not JSON, JSON without "wait", {"wait": 1.5}, {"wait": 3},
\* {"wait": "soon"}
WaitBodies ==
    { [k |-> "nojson", v |-> 0],
      NoValue,
      [k |-> "num",    v |-> 3],
      [k |-> "num",    v |-> 6],
      [k |-> "junk",   v |-> 0] }

\* payload of a 2xx response: empty text, JSON text, other text
Payloads == {"empty", "json", "text"}

Responses ==
    [status : {200}, hdr : {NoValue}, body : {NoValue}, payload : Payloads]
    \cup [status : {401, 404, 400, 403, 500}, hdr : {NoValue}, body : {NoValue},
          payload : {"text"}]
    \cup [status : {429}, hdr : RetryAfterHeaders, body : WaitBodies,
          payload : {"text"}]

Requests == { <<"GET", "/tenders">>, <<"POST", "/orders">> }

None == [k |-> "none", v |-> 0]

\* int(x) of a non-negative number given in half seconds: truncation
IntOf(v) == (v \div 2) * 2

\* the wait read from the Retry-After header, or None
\* rit_client: int(resp.headers["Retry-After"]), any failure leaves None
\* etf_arb_bot: int(...), then float(...), then None
HeaderWait(variant, hdr) ==
    CASE hdr.k = "int" -> [k |-> "some", v |-> hdr.v]
      [] hdr.k = "float" /\ variant = "etf_arb_bot" -> [k |-> "some", v |-> hdr.v]
      [] OTHER -> None

\* int(body.get("wait", 1)), 1 on any exception
BodyWait(body) ==
    CASE body.k = "num"    -> IntOf(body.v)
      [] body.k = "absent" -> DefaultWait
      [] OTHER             -> DefaultWait

\* the value of wait after the 429 branch has parsed the response
ParseWait(variant, resp) ==
    LET h == HeaderWait(variant, resp.hdr)
    IN  IF h.k = "some" THEN h.v ELSE BodyWait(resp.body)

\* value returned for a 2xx response
SuccessValue(resp) ==
    CASE resp.payload = "empty" -> "None"
      [] resp.payload = "json"  -> "json"
      [] OTHER                  -> "text"

\* a retry bound that allows one request more
ExhaustedLate(attempt, max_retries) == attempt > max_retries + 1

\* `if attempt > self.max_retries`, the test of both retry branches on the one
\* counter of the call
Exhausted(attempt, max_retries) == attempt > max_retries

\* a client that treats a 401 as one more transient failure
HandleResponseRetryAuth(variant, attempt, max_retries, resp) ==
    CASE resp.status >= 200 /\ resp.status < 300 ->
            [act |-> "return", val |-> SuccessValue(resp), sleep |-> 0]
      [] resp.status = 404 /\ variant = "etf_arb_bot" ->
            [act |-> "raise", val |-> "RITNotFound", sleep |-> 0]
      [] resp.status = 429 ->
            IF attempt > max_retries
            THEN [act |-> "raise", val |-> "RITRateLimit", sleep |-> 0]
            ELSE [act |-> "retry", val |-> "", sleep |-> ParseWait(variant, resp)]
      [] resp.status = 401 \/ (resp.status >= 500 /\ resp.status < 600) ->
            IF attempt > max_retries
            THEN [act |-> "raise",
                  val |-> IF resp.status = 401 THEN "RITAuthError" ELSE "RITError",
                  sleep |-> 0]
            ELSE [act |-> "retry", val |-> "", sleep |-> Backoff(attempt)]
      [] OTHER ->
            [act |-> "raise", val |-> "RITError", sleep |-> 0]

\* One pass of the while loop after the response came in: what the call does.
\* [act |-> "return" | "raise" | "retry", val, sleep]
HandleResponse(variant, attempt, max_retries, resp) ==
    CASE resp.status >= 200 /\ resp.status < 300 ->
            [act |-> "return", val |-> SuccessValue(resp), sleep |-> 0]
      [] resp.status = 401 ->
            [act |-> "raise", val |-> "RITAuthError", sleep |-> 0]
      [] resp.status = 404 /\ variant = "etf_arb_bot" ->
            [act |-> "raise", val |-> "RITNotFound", sleep |-> 0]
      [] resp.status = 429 ->
            IF Exhausted(attempt, max_retries)
            THEN [act |-> "raise", val |-> "RITRateLimit", sleep |-> 0]
            ELSE [act |-> "retry", val |-> "", sleep |-> ParseWait(variant, resp)]
      [] resp.status >= 500 /\ resp.status < 600 ->
            IF Exhausted(attempt, max_retries)
            THEN [act |-> "raise", val |-> "RITError", sleep |-> 0]
            ELSE [act |-> "retry", val |-> "", sleep |-> Backoff(attempt)]
      [] OTHER ->
            [act |-> "raise", val |-> "RITError", sleep |-> 0]

NoDetail == [status |-> 0, body |-> "none"]

\* an error message that names the status alone
ErrorDetailStatusOnly(variant, resp) == [status |-> resp.status, body |-> "none"]

\* what the message of the raised error names: "401 Unauthorized",
\* "404 Not Found: {url}", "429 ...", f"Server error {status}: {resp.text}",
\* f"HTTP {status}: {err}" with err the JSON or the text of the body;
\* the HTTPError of raise_for_status names the status
ErrorDetail(variant, resp) ==
    CASE variant = "bot_http" -> [status |-> resp.status, body |-> "none"]
      [] resp.status = 401 -> [status |-> 401, body |-> "none"]
      [] resp.status = 404 /\ variant = "etf_arb_bot" ->
            [status |-> 404, body |-> "none"]
      [] resp.status = 429 -> [status |-> 429, body |-> "none"]
      [] OTHER -> [status |-> resp.status, body |-> resp.payload]

\* _get, _post, _delete of the single-file bot: one request,
\* raise_for_status(), then r.json() (_get) or `r.json() if r.text else {}`
WrapperResponse(method, resp) ==
    CASE resp.status >= 400 ->
            [act |-> "raise", val |-> "HTTPError", sleep |-> 0]
      [] resp.payload = "json" ->
            [act |-> "return", val |-> "json", sleep |-> 0]
      [] resp.payload = "empty" /\ method # "GET" ->
            [act |-> "return", val |-> "{}", sleep |-> 0]
      [] OTHER ->
            [act |-> "raise", val |-> "JSONDecodeError", sleep |-> 0]

ClientInit ==
    /\ c_variant \in RITClients \cup {"bot_http"}
    /\ c_max_retries \in 0..MaxRetries
    /\ c_pc = "idle"
    /\ c_req = <<"", "">>
    /\ c_attempt = 0
    /\ c_sent = <<>>
    /\ c_statuses = <<>>
    /\ c_sleeps = <<>>
    /\ c_last = [status |-> 0, hdr |-> NoValue, body |-> NoValue, payload |-> "empty"]
    /\ c_result = [kind |-> "none", val |-> ""]
    /\ c_msg = NoDetail

\* a convenience endpoint calls self._request(method, path)
ClientCall ==
    /\ c_pc \in {"idle", "returned", "raised"}
    /\ \E r \in Requests : c_req' = r
    /\ c_pc' = "loop"
    /\ c_attempt' = 0
    /\ c_sent' = <<>>
    /\ c_statuses' = <<>>
    /\ c_sleeps' = <<>>
    /\ c_result' = [kind |-> "none", val |-> ""]
    /\ c_msg' = NoDetail
    /\ UNCHANGED <<c_variant, c_max_retries, c_last>>
    /\ UNCHANGED <<evars, dvars>>

\* one iteration of `while True`: attempt += 1, send, classify the response
ClientAttempt ==
    /\ c_pc = "loop"
    /\ \E resp \in Responses :
        LET a == c_attempt + 1
            h == IF c_variant \in RITClients
                 THEN HandleResponse(c_variant, a, c_max_retries, resp)
                 ELSE WrapperResponse(c_req[1], resp)
        IN  /\ c_attempt' = a
            /\ c_sent' = Append(c_sent, c_req)
            /\ c_statuses' = Append(c_statuses, resp.status)
            /\ c_last' = resp
            /\ c_sleeps' = IF h.act = "retry" THEN Append(c_sleeps, h.sleep)
                           ELSE c_sleeps
            /\ c_pc' = CASE h.act = "return" -> "returned"
                         [] h.act = "raise"  -> "raised"
                         [] OTHER            -> "loop"
            /\ c_result' = IF h.act = "retry" THEN c_result
                           ELSE [kind |-> h.act, val |-> h.val]
            /\ c_msg' = IF h.act = "raise" /\ h.val # "JSONDecodeError"
                        THEN ErrorDetail(c_variant, resp)
                        ELSE NoDetail
    /\ UNCHANGED <<c_variant, c_max_retries, c_req>>
    /\ UNCHANGED <<evars, dvars>>


-----------------------------------------------------------------------------
(* Exact arithmetic on the prices: a rational is [n, d] with d > 0 *)

R(n, d) == [n |-> n, d |-> d]
RAdd(a, b) == R(a.n * b.d + b.n * a.d, a.d * b.d)
RSub(a, b) == R(a.n * b.d - b.n * a.d, a.d * b.d)
RMul(a, b) == R(a.n * b.n, a.d * b.d)
\* a / b for b > 0
RDiv(a, b) == R(a.n * b.d, a.d * b.n)
RLt(a, b) == a.n * b.d < b.n * a.d
RLe(a, b) == a.n * b.d <= b.n * a.d
REq(a, b) == a.n * b.d = b.n * a.d
RMin(a, b) == IF RLe(a, b) THEN a ELSE b
RMax(a, b) == IF RLe(b, a) THEN a ELSE b
RZero == R(0, 1)

-----------------------------------------------------------------------------
(* Configuration, in cents *)

\* src/ETF Arbitrage/etf_arb_bot.py
FEE_MARKET_PER_SHARE == 2
CONVERTER_BATCH == 10000
CONVERTER_COST == 150000
CONVERTER_COST_PER_SHARE == R(CONVERTER_COST, CONVERTER_BATCH)
SAFETY_BUFFER == 1
MIN_EDGE_TO_CONSIDER == 3
MAX_ORDER == 10000
BOT_FALLBACK_SPREAD == 4
TICK_LIMIT == 300

\* src/ETFArbitrage/config.py
CFG_CONVERTER_COST_PER_SHARE == R(150000, CONVERTER_BATCH)
BOOK_FALLBACK_SPREAD_CAD == 4
ABS_BUFFER == 1
MIN_ABS_EDGE == 2
CFG_MIN_EDGE_TO_CONSIDER == 0
MAX_GROSS_LIMIT == 200000
\* the constant 0.01 of StrategyEngine._per_share_unwind_cost
UNWIND_FEE == 1
DEFAULT_SLICE_SIZE == 2000
MAX_ORDER_SIZE == 10000
SPOT_ARB_ETF_CLIP == 1000
SPOT_ARB_STOCK_CLIP == 500

-----------------------------------------------------------------------------
(* What the venue can answer *)

\* last prices, in cents
BullPrices == {1000}
BearPrices == {1000, 1010}
RitcPrices == {2000, 1600}
\* CAD per USD
FxRates == { R(1, 1), R(5, 4) }

\* a row of /securities that is absent; the FX row carries a rational
Missing == -1
MissingFx == R(Missing, 1)

\* the instrument rows the engine prices from: each a last price or Missing
Securities ==
    [BULL : BullPrices, BEAR : BearPrices, RITC : RitcPrices, USD : FxRates]
    \cup [BULL : {Missing}, BEAR : BearPrices, RITC : {2000}, USD : {R(1, 1)}]
    \cup [BULL : BullPrices, BEAR : {1000}, RITC : {2000}, USD : {MissingFx}]

\* /securities/book of RITC: no usable best bid/ask, or (bid, ask) in USD cents
NoBook == [bid |-> Missing, ask |-> Missing]
\* get_book raised: the book could not be fetched
Unfetched == -2
BookError == [bid |-> Unfetched, ask |-> Unfetched]
Books ==
    { NoBook,
      BookError,
      [bid |-> Missing, ask |-> 2004],
      [bid |-> 1996, ask |-> Missing],
      [bid |-> 2000, ask |-> 2000],
      [bid |-> 1996, ask |-> 2004],
      [bid |-> 1980, ask |-> 2020],
      [bid |-> 2004, ask |-> 2000] }

\* tender payloads: the field "action" may be absent or hold a number in
\* place of a string; no payload carries a field "side" or "direction"
TenderPrices == {1500, 1596, 1597, 1600, 1603, 1604, 1950, 1984, 1985,
                 1994, 1995, 1996, 1997, 2000, 2001, 2003, 2004, 2005, 2006,
                 2015, 2016, 2050}
TenderQtys == {5000, 25000}
Tenders ==
    [id : 1..MaxTenders, ticker : {"RITC", "BULL"}, price : TenderPrices,
     quantity : TenderQtys, action : {"SELL", "BUY", "absent", "number"}]

\* the part of these the trading loop is run on
LoopSecurities ==
    { [BULL |-> 1000, BEAR |-> 1000, RITC |-> 2000, USD |-> R(1, 1)],
      [BULL |-> 1000, BEAR |-> 1000, RITC |-> 1600, USD |-> R(1, 1)],
      [BULL |-> 1000, BEAR |-> 1000, RITC |-> 2000, USD |-> R(5, 4)],
      [BULL |-> Missing, BEAR |-> 1000, RITC |-> 2000, USD |-> R(1, 1)] }
LoopBooks == { NoBook, [bid |-> 1980, ask |-> 2020] }
LoopTenders ==
    [id : 1..MaxTenders, ticker : {"RITC"}, price : {1950, 1997},
     quantity : {5000}, action : {"SELL"}]
    \cup [id : 1..MaxTenders, ticker : {"RITC"}, price : {1950, 2050},
          quantity : {5000}, action : {"BUY"}]
    \cup [id : 1..MaxTenders, ticker : {"RITC"}, price : {1950},
          quantity : {25000}, action : {"absent"}]
    \cup [id : 1..MaxTenders, ticker : {"BULL"}, price : {1950},
          quantity : {5000}, action : {"SELL"}]

-----------------------------------------------------------------------------
(* Single-file bot: src/ETF Arbitrage/etf_arb_bot.py *)

\* fair_value_and_edge: raises when a row is missing
BotRowsPresent(secs) ==
    /\ secs.BULL # Missing /\ secs.BEAR # Missing
    /\ secs.RITC # Missing /\ secs.USD # MissingFx

\* fv_cad = bull_px + bear_px
BotFairValue(secs) == R(secs.BULL + secs.BEAR, 1)

\* ritc_cad without the FX rate
BotRitcCadUnconverted(secs) == R(secs.RITC, 1)

\* ritc_cad = ritc_usd * fx_cad_per_usd
BotRitcCad(secs) == RMul(R(secs.RITC, 1), secs.USD)

\* fair_value_and_edge returns (fv_cad, ritc_usd, fx_cad_per_usd, ritc_cad)
BotFairValueAndEdge(secs) ==
    [fv_cad |-> BotFairValue(secs), ritc_usd |-> R(secs.RITC, 1),
     fx |-> secs.USD, ritc_cad |-> BotRitcCad(secs)]

\* estimate_spread_cad("RITC", fx, quote_ccy_is_usd=True); `book` is NoBook
\* when get_book raised or a side of the book is empty
BotSpreadCad(book, fx) ==
    IF book = BookError \/ book.bid = Missing \/ book.ask = Missing
    THEN R(BOT_FALLBACK_SPREAD, 1)
    ELSE RMul(R(IF book.ask - book.bid > 0 THEN book.ask - book.bid ELSE 0, 1), fx)

\* an estimate that adds the whole per-share fee
BotUnwindCostEtfFullFee(spread) ==
    RAdd(RDiv(spread, R(2, 1)), R(FEE_MARKET_PER_SHARE, 1))

\* per_share_unwind_cost_etf
BotUnwindCostEtf(spread) ==
    RAdd(RDiv(spread, R(2, 1)), RMul(R(FEE_MARKET_PER_SHARE, 1), R(1, 2)))

\* should_use_converter
BotShouldUseConverter(spread) ==
    RLt(CONVERTER_COST_PER_SHARE, BotUnwindCostEtf(spread))

\* a side that is "BUY" when no side field is a string
BotTenderSideAsBuy(t) ==
    IF t.action \in {"absent", "number"} THEN "BUY" ELSE t.action

\* tender_fields: side = action upper-cased, "SELL" when no side field is a string
BotTenderSide(t) ==
    IF t.action \in {"absent", "number"} THEN "SELL" ELSE t.action

\* an edge that is fair value minus offer price whatever the side
BotEdgeOneSided(side, fv_cad, tender_cad) == RSub(fv_cad, tender_cad)

\* the edge lines of evaluate_and_maybe_accept_tender
BotEdge(side, fv_cad, tender_cad) ==
    IF side = "SELL" THEN RSub(fv_cad, tender_cad) ELSE RSub(tender_cad, fv_cad)

\* a decision that accepts only an edge above the minimum, not one equal to it
BotEvaluateStrict(t, secs, book) ==
    LET fx         == secs.USD
        spread     == BotSpreadCad(book, fx)
        side       == BotTenderSide(t)
        tender_cad == RMul(R(t.price, 1), fx)
        edge       == IF side = "SELL"
                      THEN RSub(BotFairValue(secs), tender_cad)
                      ELSE RSub(tender_cad, BotFairValue(secs))
        unwind     == RMin(BotUnwindCostEtf(spread), CONVERTER_COST_PER_SHARE)
        min_needed == RMax(R(MIN_EDGE_TO_CONSIDER, 1),
                           RAdd(unwind, R(SAFETY_BUFFER, 1)))
    IN  [decision |-> CASE t.ticker # "RITC"     -> "IGNORE"
                        [] RLt(edge, RZero)      -> "DECLINE"
                        [] RLt(min_needed, edge) -> "ACCEPT"
                        [] OTHER                 -> "DECLINE",
         side |-> side, edge |-> edge, unwind_cost |-> unwind,
         min_needed |-> min_needed]

\* evaluate_and_maybe_accept_tender up to the venue call:
\* "IGNORE" is the return False of a foreign ticker
BotEvaluate(t, secs, book) ==
    LET fx         == secs.USD
        spread     == BotSpreadCad(book, fx)
        side       == BotTenderSide(t)
        tender_cad == RMul(R(t.price, 1), fx)
        edge       == BotEdge(side, BotFairValue(secs), tender_cad)
        unwind     == RMin(BotUnwindCostEtf(spread), CONVERTER_COST_PER_SHARE)
        min_needed == RMax(R(MIN_EDGE_TO_CONSIDER, 1),
                           RAdd(unwind, R(SAFETY_BUFFER, 1)))
    IN  [decision |-> CASE t.ticker # "RITC"     -> "IGNORE"
                        [] RLt(edge, RZero)      -> "DECLINE"
                        [] RLe(min_needed, edge) -> "ACCEPT"
                        [] OTHER                 -> "DECLINE",
         side |-> side, edge |-> edge, unwind_cost |-> unwind,
         min_needed |-> min_needed]

-----------------------------------------------------------------------------
(* Modular trader: src/ETFArbitrage/strategy.py *)

\* float(row.get("last") or ... or default): an absent row gives the default
RowOr(x, default) == IF x = Missing THEN default ELSE x
FxOr(x, default) == IF x = MissingFx THEN default ELSE x

\* StrategyEngine.compute_fair
ComputeFair(quotes) ==
    LET bull_px  == RowOr(quotes.BULL, 0)
        bear_px  == RowOr(quotes.BEAR, 0)
        fx_rate  == FxOr(quotes.USD, R(1, 1))
        ritc_usd == RowOr(quotes.RITC, 0)
        fair_cad == R(bull_px + bear_px, 1)
    IN  [fair_cad |-> fair_cad, fair_usd |-> RDiv(fair_cad, fx_rate),
         ritc_usd |-> R(ritc_usd, 1), fx_rate |-> fx_rate]

\* StrategyEngine._book_spread_cad; `book` is NoBook when the call raised or
\* a best price is missing
BookSpreadCad(book, fx_rate) ==
    IF book = BookError \/ book.bid = Missing \/ book.ask = Missing
    THEN R(BOOK_FALLBACK_SPREAD_CAD, 1)
    ELSE RMul(R(IF book.ask - book.bid > 0 THEN book.ask - book.bid ELSE 0, 1),
              fx_rate)

\* StrategyEngine._per_share_unwind_cost
PerShareUnwindCost(spread_cad) ==
    RAdd(RDiv(spread_cad, R(2, 1)), R(UNWIND_FEE, 1))

\* side = (tender.get("action") or "SELL").upper()
TenderSide(t) == IF t.action = "absent" THEN "SELL" ELSE t.action

\* the same line on an action that is a number: it has no upper(), the call
\* raises AttributeError
TenderSideRaises(t) == t.action = "number"

\* a decision that looks at the size of the edge and not at its sign
EvaluateTenderUnsigned(t, quotes, book) ==
    LET f          == ComputeFair(quotes)
        price      == R(t.price, 1)
        side       == TenderSide(t)
        edge_usd   == IF side = "SELL" THEN RSub(f.fair_usd, price)
                      ELSE RSub(price, f.fair_usd)
        edge_cad   == RMul(edge_usd, f.fx_rate)
        size_cad   == R(IF edge_cad.n < 0 THEN -edge_cad.n ELSE edge_cad.n, edge_cad.d)
        spread_cad == BookSpreadCad(book, f.fx_rate)
        unwind     == RMin(PerShareUnwindCost(spread_cad),
                           CFG_CONVERTER_COST_PER_SHARE)
        min_needed == RMax(R(MIN_ABS_EDGE, 1), RAdd(unwind, R(ABS_BUFFER, 1)))
    IN  [decision |-> IF RLe(min_needed, size_cad) THEN "ACCEPT" ELSE "DECLINE",
         side |-> side, edge |-> edge_cad, unwind_cost |-> unwind,
         min_needed |-> min_needed]

\* StrategyEngine.evaluate_tender
EvaluateTender(t, quotes, book) ==
    IF TenderSideRaises(t)
    THEN [decision |-> "RAISE", side |-> "", edge |-> RZero,
          unwind_cost |-> RZero, min_needed |-> RZero]
    ELSE
    LET f          == ComputeFair(quotes)
        price      == R(t.price, 1)
        side       == TenderSide(t)
        edge_usd   == IF side = "SELL" THEN RSub(f.fair_usd, price)
                      ELSE RSub(price, f.fair_usd)
        edge_cad   == RMul(edge_usd, f.fx_rate)
        spread_cad == BookSpreadCad(book, f.fx_rate)
        unwind     == RMin(PerShareUnwindCost(spread_cad),
                           CFG_CONVERTER_COST_PER_SHARE)
        min_needed == RMax(R(MIN_ABS_EDGE, 1), RAdd(unwind, R(ABS_BUFFER, 1)))
    IN  [decision |-> IF /\ RLe(min_needed, edge_cad)
                         /\ RLe(R(CFG_MIN_EDGE_TO_CONSIDER, 1), edge_cad)
                      THEN "ACCEPT" ELSE "DECLINE",
         side |-> side, edge |-> edge_cad, unwind_cost |-> unwind,
         min_needed |-> min_needed]

-----------------------------------------------------------------------------
(* The venue, as the trading loop sees it *)

\* how a venue call ends: a result, a 401, or any other failure
Outcomes == {"ok", "auth", "error"}

\* RITC positions the venue can report after an accepted offer
Positions == {0, 5000, -5000, 15000}

\* the position the venue reports after a conversion that succeeded: one
\* block nearer to zero, or unchanged
AfterConversion(pos) ==
    { pos,
      IF pos >= CONVERTER_BATCH THEN pos - CONVERTER_BATCH
      ELSE IF pos <= -CONVERTER_BATCH THEN pos + CONVERTER_BATCH
      ELSE pos }

\* position rows of /securities
PositionRows == [RITC : {0, 5000}, BULL : {0}, BEAR : {10000}]

\* /securities read again within a cycle: the same prices, or a reply that
\* lacks a row
RefreshedSecurities(secs) == { secs, [secs EXCEPT !.BULL = Missing] }

\* gross limits: the fallback MAX_GROSS_LIMIT or the one /limits reports
GrossLimits == {MAX_GROSS_LIMIT, 20000}

\* ticks get_tick can report
Ticks == {TICK_LIMIT - 1, TICK_LIMIT, TICK_LIMIT + 1}

\* before the first read of a pass the rows are not set
InitSecs == [BULL |-> Missing, BEAR |-> Missing, RITC |-> Missing, USD |-> MissingFx]

Abs(x) == IF x < 0 THEN -x ELSE x

\* outcomes of a call that is made only when `reached` holds
OutcomesIf(reached) == IF reached THEN Outcomes ELSE {"ok"}
Min(a, b) == IF a <= b THEN a ELSE b

NoTender == [id |-> 0, ticker |-> "", price |-> 0, quantity |-> 0, action |-> "absent"]
NoEval == [t |-> NoTender, book |-> NoBook, decision |-> "NONE", guard |-> FALSE,
           sent |-> "none", ok |-> FALSE]
NoSlice == [ticker |-> "", side |-> "", total |-> 0, remaining |-> 0,
            passive |-> FALSE, ret |-> ""]
\* the unwind of one accepted offer: the position it starts from, the book
\* its cost estimate was read from, the path chosen, the conversions invoked
\* and how the last one ended ("none", "ok", "failed"), whether the passes
\* of the conversion loop so far are odd in number
NoUnwind == [prefer |-> FALSE, convs |-> 0, last |-> "none", start |-> 0,
             book |-> NoBook, odd |-> FALSE]

\* a mutating request handed to the venue
Req(op, ticker, side, typ, qty) ==
    [op |-> op, ticker |-> ticker, side |-> side, typ |-> typ, qty |-> qty]

\* POST or DELETE /tenders/{id}
TenderReq(op, tid) == [op |-> op, ticker |-> "", side |-> "", typ |-> "", qty |-> tid]

\* the resolution of an offer with a decline added after a failed accept
TenderRequestsDeclineOnFailure(op, tid, ok) ==
    IF op = "accept" /\ ~ok
    THEN <<TenderReq("accept", tid), TenderReq("decline", tid)>>
    ELSE <<TenderReq(op, tid)>>

\* the resolution of an offer: one accept_tender or one decline_tender call
TenderRequests(op, tid, ok) == <<TenderReq(op, tid)>>

\* where the for-loop over the offers goes after an offer is done
AfterOffer(left) == IF left > 0 THEN "tenders" ELSE "spot"

\* where a slicing call returns to
RetPc(ret, left) ==
    CASE ret = "offer" -> AfterOffer(left)
      [] ret = "end"   -> "sleep"
      [] OTHER         -> ret

-----------------------------------------------------------------------------
(* Single-file bot: the loop of main() *)

\* arb_pair_trade_if_edge up to the first order: "NONE", "SELL" or "BUY" RITC
BotArbDirection(secs, book) ==
    LET mispricing == RSub(BotRitcCad(secs), BotFairValue(secs))
        spread     == BotSpreadCad(book, secs.USD)
        cost       == RAdd(RMin(BotUnwindCostEtf(spread), CONVERTER_COST_PER_SHARE),
                           R(SAFETY_BUFFER, 1))
        absmis     == R(Abs(mispricing.n), mispricing.d)
    IN  IF RLt(absmis, RMax(R(MIN_EDGE_TO_CONSIDER, 1), cost)) THEN "NONE"
        ELSE IF RLt(RZero, mispricing) THEN "SELL" ELSE "BUY"

\* top of `while True` up to the for-loop: get_tick, get_securities, get_tenders
BotCycleStart ==
    /\ engine = "bot" /\ e_pc = "start"
    /\ \E oTick \in Outcomes :
       \E tick \in (IF oTick = "ok" THEN Ticks ELSE {e_tick}) :
       \E oSecs \in OutcomesIf(oTick = "ok") :
       \E secs \in (IF oTick = "ok" /\ oSecs = "ok" THEN LoopSecurities
                    ELSE {InitSecs}) :
       \E oTend \in OutcomesIf(oTick = "ok" /\ oSecs = "ok") :
       \E n \in (IF oTick = "ok" /\ oSecs = "ok" /\ oTend = "ok"
                 THEN 0..MaxTenders ELSE {0}) :
        /\ tick >= e_tick /\ tick < TICK_LIMIT
        /\ LET raised == oTick # "ok" \/ oSecs # "ok"
           IN  /\ e_tick' = tick
               /\ e_secs' = secs
               /\ e_left' = n
               /\ e_pc' = IF raised THEN "caught" ELSE AfterOffer(n)
               /\ e_auth' = (e_auth \/ "auth" \in {oTick, oSecs, oTend})
               /\ e_fresh' = ~raised
    /\ e_cur' = NoEval
    /\ e_log' = <<>>
    /\ e_unw' = NoUnwind
    /\ e_slice' = NoSlice
    /\ e_pos' = 0
    /\ UNCHANGED <<engine, e_gross, e_gross_limit>>
    /\ UNCHANGED <<cvars, dvars>>

\* tick >= TICK_LIMIT: break, then the cleanup cancel_all_orders()
BotSessionEnd ==
    /\ engine = "bot" /\ e_pc = "start"
    /\ \E tick \in Ticks, oCancel \in Outcomes :
        /\ tick >= e_tick /\ tick >= TICK_LIMIT
        /\ e_tick' = tick
        /\ e_log' = <<Req("cancel", "", "", "", 0)>>
        /\ e_auth' = (e_auth \/ oCancel = "auth")
    /\ e_pc' = "stopped"
    /\ UNCHANGED <<engine, e_secs, e_pos, e_gross, e_gross_limit, e_left, e_cur, e_fresh,
                   e_unw, e_slice>>
    /\ UNCHANGED <<cvars, dvars>>

\* an accepted offer followed at once by the next offer
BotAfterAcceptNextOffer(left) == AfterOffer(left)

\* `if accepted:` the refresh and the unwind come before the next offer
BotAfterAccept(left) == "refresh"

\* one pass of `for t in tenders`: evaluate_and_maybe_accept_tender(t, secs)
BotTender ==
    /\ engine = "bot" /\ e_pc = "tenders" /\ e_left > 0
    /\ \E t \in {x \in LoopTenders : x.id = e_left} :
       \E oBook \in OutcomesIf(BotRowsPresent(e_secs)) :
       \E bk \in (IF BotRowsPresent(e_secs) /\ oBook = "ok" THEN LoopBooks
                  ELSE {NoBook}) :
       \E oCall \in OutcomesIf(BotRowsPresent(e_secs)
                               /\ BotEvaluate(t, e_secs, bk).decision # "IGNORE") :
        LET present  == BotRowsPresent(e_secs)
            ev       == BotEvaluate(t, e_secs, bk)
            calls    == present /\ ev.decision \in {"ACCEPT", "DECLINE"}
            op       == IF ev.decision = "ACCEPT" THEN "accept" ELSE "decline"
            \* decline_tender raises into main(); a failed accept is caught
            raised   == ~present \/ (calls /\ op = "decline" /\ oCall # "ok")
            accepted == calls /\ op = "accept" /\ oCall = "ok"
        IN  /\ e_cur' = IF present
                        THEN [t |-> t, book |-> bk, decision |-> ev.decision,
                              guard |-> FALSE,
                              sent |-> IF calls THEN op ELSE "none",
                              ok |-> (calls /\ oCall = "ok")]
                        ELSE NoEval
            /\ e_log' = IF calls THEN TenderRequests(op, t.id, oCall = "ok") ELSE <<>>
            /\ e_left' = e_left - 1
            /\ e_pc' = IF raised THEN "caught"
                       ELSE IF accepted THEN BotAfterAccept(e_left - 1)
                       ELSE AfterOffer(e_left - 1)
            /\ e_auth' = (e_auth \/ oBook = "auth" \/ oCall = "auth")
            /\ e_fresh' = (e_fresh /\ ~accepted)
    /\ e_pos' = 0
    /\ e_unw' = NoUnwind
    /\ e_slice' = NoSlice
    /\ UNCHANGED <<engine, e_tick, e_secs, e_gross, e_gross_limit>>
    /\ UNCHANGED <<cvars, dvars>>

\* after an accept: secs = get_securities(); unwind_inventory(secs) up to its
\* first conversion or order, the venue reporting a position of `positions`
\* and a book of `books`
UnwindInventory(positions, books) ==
    /\ engine = "bot" /\ e_pc = "refresh"
    /\ \E oSecs \in Outcomes :
       \E secs \in (IF oSecs = "ok" THEN RefreshedSecurities(e_secs) ELSE {e_secs}) :
       \E pos \in (IF oSecs = "ok" THEN positions ELSE {e_pos}) :
       \E oBook \in OutcomesIf(oSecs = "ok" /\ BotRowsPresent(secs) /\ pos # 0) :
       \E bk \in (IF oSecs = "ok" /\ BotRowsPresent(secs) /\ pos # 0 /\ oBook = "ok"
                  THEN books ELSE {NoBook}) :
       \E oHint \in (IF oSecs = "ok" /\ BotRowsPresent(secs) /\ pos # 0
                     THEN Outcomes \cup {"empty"} ELSE {"ok"}) :
        LET early  == oSecs # "ok" \/ ~BotRowsPresent(secs) \/ pos = 0
            \* book.get("bids", [{}])[0] on an empty side: IndexError
            raised == \/ oSecs # "ok"
                      \/ ~BotRowsPresent(secs)
                      \/ (pos # 0 /\ oHint = "empty")
            prefer == BotShouldUseConverter(BotSpreadCad(bk, secs.USD))
            idle   == raised \/ pos = 0
        IN  /\ e_secs' = secs
            /\ e_pos' = pos
            /\ e_unw' = IF idle THEN NoUnwind
                        ELSE [prefer |-> prefer, convs |-> 0, last |-> "none",
                              start |-> Abs(pos), book |-> bk, odd |-> FALSE]
            /\ e_slice' = IF idle \/ (prefer /\ Abs(pos) >= CONVERTER_BATCH)
                          THEN NoSlice
                          ELSE [ticker |-> "RITC",
                                side |-> IF pos > 0 THEN "SELL" ELSE "BUY",
                                total |-> Abs(pos), remaining |-> Abs(pos),
                                passive |-> TRUE, ret |-> "offer"]
            /\ e_pc' = IF raised THEN "caught"
                       ELSE IF pos = 0 THEN AfterOffer(e_left)
                       ELSE IF prefer /\ Abs(pos) >= CONVERTER_BATCH THEN "convert"
                       ELSE "slice"
            /\ e_left' = e_left
            /\ e_auth' = (e_auth \/ "auth" \in {oSecs, oBook, oHint})
            /\ e_fresh' = (e_fresh \/ oSecs = "ok")
    /\ UNCHANGED <<engine, e_tick, e_gross, e_gross_limit, e_cur, e_log>>
    /\ UNCHANGED <<cvars, dvars>>

\* the unwind within the trading loop
BotRefresh == UnwindInventory(Positions, LoopBooks)

\* the conversion loop left after the first pass
ConvertOnce(ok, newpos) == FALSE

\* the conversion loop going on after a failed try_convert
ConvertAgainRegardless(ok, newpos) == Abs(newpos) >= CONVERTER_BATCH

\* another pass of the conversion loop: try_convert returned True (no
\* `break`) and `while todo >= CONVERTER_BATCH` holds for the position read
ConvertAgain(ok, newpos) == ok /\ Abs(newpos) >= CONVERTER_BATCH

\* one pass of `while todo >= CONVERTER_BATCH`: try_convert, then the refresh;
\* when the loop ends, the residual goes to place_sliced_orders; a pass is
\* counted, and its requests logged, while `counted` holds
ConvertPass(counted) ==
    /\ engine = "bot" /\ e_pc = "convert"
    /\ \E oLease \in Outcomes :
       \E oUse \in OutcomesIf(oLease = "ok") :
       \E oRel \in OutcomesIf(oLease = "ok") :
       \E oSecs \in OutcomesIf(oLease = "ok" /\ oUse = "ok") :
       \E pos \in (IF oLease = "ok" /\ oUse = "ok" /\ oSecs = "ok"
                   THEN AfterConversion(e_pos) ELSE {e_pos}) :
        LET ok     == oLease = "ok" /\ oUse = "ok"
            raised == ok /\ oSecs # "ok"
            newpos == IF ok /\ ~raised THEN pos ELSE e_pos
            again  == ~raised /\ ConvertAgain(ok, newpos)
            reqs   == <<Req("lease", "RITC", "", "CONVERTER", 0)>>
                      \o (IF oLease = "ok"
                          THEN <<Req("use_lease", "RITC", "", "", 0),
                                 Req("release_lease", "RITC", "", "", 0)>>
                          ELSE <<>>)
        IN  /\ e_log' = IF counted THEN e_log \o reqs ELSE e_log
            /\ e_pos' = newpos
            /\ e_unw' = [e_unw EXCEPT !.convs = IF counted THEN @ + 1 ELSE @,
                                      !.odd = ~@,
                                      !.last = IF ok THEN "ok" ELSE "failed"]
            /\ e_slice' = IF raised \/ again \/ newpos = 0 THEN NoSlice
                          ELSE [ticker |-> "RITC",
                                side |-> IF newpos > 0 THEN "SELL" ELSE "BUY",
                                total |-> Abs(newpos), remaining |-> Abs(newpos),
                                passive |-> TRUE, ret |-> "offer"]
            /\ e_pc' = IF raised THEN "caught"
                       ELSE IF again THEN "convert"
                       ELSE IF newpos = 0 THEN AfterOffer(e_left)
                       ELSE "slice"
            /\ e_left' = e_left
            /\ e_auth' = (e_auth \/ "auth" \in {oLease, oUse, oRel, oSecs})
            \* `if not ok: break`, else the rows are read again
            /\ e_fresh' = IF ok THEN oSecs = "ok" ELSE e_fresh
    /\ UNCHANGED <<engine, e_tick, e_secs, e_gross, e_gross_limit, e_cur>>
    /\ UNCHANGED <<cvars, dvars>>

\* the first MaxConvs passes of the conversion loop
BotConvert == e_unw.convs < MaxConvs /\ ConvertPass(TRUE)

\* the passes after them: the loop has no bound of its own, the count and the
\* log of the model stay as they are
BotConvertOn == e_unw.convs = MaxConvs /\ ConvertPass(FALSE)

\* clip = min(remaining, MAX_ORDER), without the cap
BotClipSizeUncapped(remaining) == remaining

\* clip = min(remaining, MAX_ORDER)
BotClipSize(remaining) == Min(remaining, MAX_ORDER)

\* the loop of place_sliced_orders going on after a clip that was not placed
BotLoopEndsWhenDone(placed, rem) == rem = 0

\* the loop of place_sliced_orders ends: `break` when neither attempt placed
\* the clip, or `while remaining > 0` is false
BotLoopEnds(placed, rem) == ~placed \/ rem = 0

\* one pass of `while remaining > 0` of place_sliced_orders
BotClip ==
    /\ engine = "bot" /\ e_pc = "slice"
    /\ \E oFirst \in Outcomes :
       \E oMarket \in OutcomesIf(oFirst # "ok" /\ e_slice.passive) :
        LET clip   == BotClipSize(e_slice.remaining)
            typ    == IF e_slice.passive THEN "LIMIT" ELSE "MARKET"
            retry  == oFirst # "ok" /\ typ = "LIMIT"
            placed == oFirst = "ok" \/ (retry /\ oMarket = "ok")
            rem    == IF placed THEN e_slice.remaining - clip ELSE e_slice.remaining
            done   == BotLoopEnds(placed, rem)
            reqs   == <<Req("order", e_slice.ticker, e_slice.side, typ, clip)>>
                      \o (IF retry
                          THEN <<Req("order", e_slice.ticker, e_slice.side, "MARKET",
                                     clip)>>
                          ELSE <<>>)
        IN  /\ e_log' = e_log \o reqs
            /\ e_slice' = [e_slice EXCEPT !.remaining = rem]
            /\ e_pc' = IF done THEN RetPc(e_slice.ret, e_left) ELSE "slice"
            /\ e_auth' = (e_auth \/ oFirst = "auth" \/ oMarket = "auth")
            /\ e_fresh' = (e_fresh /\ ~placed)
    /\ UNCHANGED <<engine, e_tick, e_secs, e_pos, e_gross, e_gross_limit, e_left,
                   e_cur, e_unw>>
    /\ UNCHANGED <<cvars, dvars>>

\* arb_pair_trade_if_edge(secs) up to its first order
BotSpot ==
    /\ engine = "bot" /\ e_pc = "spot"
    /\ \E oBook \in OutcomesIf(BotRowsPresent(e_secs)) :
       \E bk \in (IF BotRowsPresent(e_secs) /\ oBook = "ok" THEN LoopBooks
                  ELSE {NoBook}) :
        LET present == BotRowsPresent(e_secs)
            dir     == BotArbDirection(e_secs, bk)
            trade   == present /\ dir # "NONE"
        IN  /\ e_slice' = IF trade
                          THEN [ticker |-> "RITC", side |-> dir, total |-> MAX_ORDER,
                                remaining |-> MAX_ORDER, passive |-> TRUE,
                                ret |-> "spot2"]
                          ELSE NoSlice
            /\ e_pc' = IF trade THEN "slice"
                       ELSE IF present THEN "sleep" ELSE "caught"
            /\ e_auth' = (e_auth \/ oBook = "auth")
    /\ e_log' = <<>>
    /\ e_cur' = NoEval
    /\ e_pos' = 0
    /\ e_unw' = NoUnwind
    /\ UNCHANGED <<engine, e_tick, e_secs, e_gross, e_gross_limit, e_left, e_fresh>>
    /\ UNCHANGED <<cvars, dvars>>

\* the hedge legs of arb_pair_trade_if_edge: BULL, then BEAR, on the other
\* side; the hint is the row's bid/ask, which may be None
BotSpotLeg ==
    /\ engine = "bot" /\ e_pc \in {"spot2", "spot3"}
    /\ \E hint \in BOOLEAN :
        e_slice' = [ticker |-> IF e_pc = "spot2" THEN "BULL" ELSE "BEAR",
                    side |-> IF e_pc = "spot3" THEN e_slice.side
                             ELSE IF e_slice.side = "SELL" THEN "BUY" ELSE "SELL",
                    total |-> MAX_ORDER, remaining |-> MAX_ORDER, passive |-> hint,
                    ret |-> IF e_pc = "spot2" THEN "spot3" ELSE "end"]
    /\ e_pc' = "slice"
    /\ UNCHANGED <<engine, e_tick, e_secs, e_pos, e_gross, e_gross_limit, e_left,
                   e_cur, e_unw, e_log, e_auth, e_fresh>>
    /\ UNCHANGED <<cvars, dvars>>

-----------------------------------------------------------------------------
(* Modular trader: src/ETFArbitrage/trader.py, executor.py *)

\* compute_inventory_gross: the ETF counts twice
ComputeInventoryGross(rows) ==
    Abs(rows.RITC) * 2 + Abs(rows.BULL) + Abs(rows.BEAR)

\* StrategyEngine.check_spot_arbitrage
CheckSpotArbitrage(quotes, book) ==
    LET f          == ComputeFair(quotes)
        edge_usd   == RSub(f.fair_usd, f.ritc_usd)
        edge_cad   == RMul(edge_usd, f.fx_rate)
        spread_cad == BookSpreadCad(book, f.fx_rate)
        unwind     == RMin(PerShareUnwindCost(spread_cad),
                           CFG_CONVERTER_COST_PER_SHARE)
        min_needed == RMax(R(MIN_ABS_EDGE, 1), RAdd(unwind, R(ABS_BUFFER, 1)))
    IN  IF RLt(min_needed, edge_cad) THEN "BUY_ETF_SELL_BASKET"
        ELSE IF RLt(min_needed, RSub(RZero, edge_cad)) THEN "SELL_ETF_BUY_BASKET"
        ELSE "HOLD"

\* Executor.slice_and_execute picks LIMIT when passive and the book has the
\* best price of the opposite side
HasBest(book, side) ==
    IF side = "BUY" THEN book.ask # Missing ELSE book.bid # Missing

\* top of `while True` up to the for-loop: fetch_quotes, get_tenders,
\* get_securities, compute_inventory_gross; the clock of the case goes on and
\* the loop does not look at it, so short of the limit and at the limit are
\* the two cases
TraderCycleStart ==
    /\ engine = "trader" /\ e_pc = "start"
    /\ \E tick \in Ticks \ {TICK_LIMIT + 1} : tick >= e_tick /\ e_tick' = tick
    /\ \E oQuotes \in Outcomes :
       \E oTend \in OutcomesIf(oQuotes = "ok") :
       \E oSecs \in OutcomesIf(oQuotes = "ok" /\ oTend = "ok") :
       \E quotes \in (IF oQuotes = "ok" /\ oTend = "ok" /\ oSecs = "ok"
                      THEN LoopSecurities ELSE {InitSecs}) :
       \E n \in (IF oQuotes = "ok" /\ oTend = "ok" /\ oSecs = "ok"
                 THEN 0..MaxTenders ELSE {0}) :
       \E rows \in (IF oQuotes = "ok" /\ oTend = "ok" /\ oSecs = "ok"
                    THEN PositionRows ELSE {[RITC |-> 0, BULL |-> 0, BEAR |-> 0]}) :
        LET raised == "ok" # oQuotes \/ "ok" # oTend \/ "ok" # oSecs
        IN  /\ e_secs' = quotes
            /\ e_left' = n
            /\ e_gross' = IF raised THEN e_gross ELSE ComputeInventoryGross(rows)
            /\ e_pos' = IF raised THEN e_pos ELSE rows.RITC
            /\ e_pc' = IF raised THEN "caught" ELSE AfterOffer(n)
            /\ e_auth' = (e_auth \/ "auth" \in {oQuotes, oTend, oSecs})
            /\ e_fresh' = ~raised
    /\ e_cur' = NoEval
    /\ e_log' = <<>>
    /\ e_unw' = NoUnwind
    /\ e_slice' = NoSlice
    /\ UNCHANGED <<engine, e_gross_limit>>
    /\ UNCHANGED <<cvars, dvars>>

\* a guard that also stops an offer that would bring the gross to the limit
GrossBreachAtLimit(gross, qty, gross_limit) == gross + Abs(qty) * 2 >= gross_limit

\* `# limit guard`: projected_gross = gross + abs(qty) * 2 > gross_limit
GrossBreach(gross, qty, gross_limit) == gross + Abs(qty) * 2 > gross_limit

\* one pass of `for t in tenders` up to the unwind of an accepted offer
TraderTender ==
    /\ engine = "trader" /\ e_pc = "tenders" /\ e_left > 0
    /\ \E t \in {x \in LoopTenders : x.id = e_left} :
       \E oBook \in Outcomes :
       \E bk \in (IF oBook = "ok" THEN LoopBooks ELSE {NoBook}) :
       \E oCall \in Outcomes :
        LET evalr    == EvaluateTender(t, e_secs, bk)
            breach   == GrossBreach(e_gross, t.quantity, e_gross_limit)
            op       == IF evalr.decision # "ACCEPT" \/ breach THEN "decline"
                        ELSE "accept"
            accepted == op = "accept" /\ oCall = "ok"
            blocks   == Abs(t.quantity) \div CONVERTER_BATCH
            leftover == Abs(t.quantity) % CONVERTER_BATCH
            \* execu.use_converter calls client.use_converter, which RITClient
            \* does not define: AttributeError
            raised   == oCall # "ok" \/ (accepted /\ blocks > 0)
        IN  /\ e_cur' = [t |-> t, book |-> bk, decision |-> evalr.decision,
                         guard |-> (evalr.decision = "ACCEPT" /\ breach),
                         sent |-> op, ok |-> (oCall = "ok")]
            /\ e_log' = TenderRequests(op, t.id, oCall = "ok")
            /\ e_left' = e_left - 1
            /\ e_pc' = IF raised THEN "caught"
                       ELSE IF ~accepted THEN AfterOffer(e_left - 1)
                       ELSE IF leftover > 0 THEN "leftover" ELSE "regross"
            /\ e_auth' = (e_auth \/ oBook = "auth" \/ oCall = "auth")
            /\ e_fresh' = (e_fresh /\ ~accepted)
            \* `if blocks > 0`: one execu.use_converter call, whatever `blocks`
            /\ e_unw' = IF accepted
                        THEN [prefer |-> blocks > 0,
                              convs |-> IF blocks > 0 THEN 1 ELSE 0,
                              last |-> IF blocks > 0 THEN "failed" ELSE "none",
                              start |-> Abs(t.quantity), book |-> bk,
                              odd |-> blocks > 0]
                        ELSE NoUnwind
    /\ e_slice' = NoSlice
    /\ UNCHANGED <<engine, e_tick, e_secs, e_pos, e_gross, e_gross_limit>>
    /\ UNCHANGED <<cvars, dvars>>

\* `if leftover > 0`: get_security_book, then slice_and_execute begins
TraderLeftover ==
    /\ engine = "trader" /\ e_pc = "leftover"
    /\ \E oBook \in Outcomes :
       \E bk \in (IF oBook = "ok" THEN LoopBooks ELSE {NoBook}) :
        LET side == IF TenderSide(e_cur.t) = "SELL" THEN "SELL" ELSE "BUY"
            qty  == Abs(e_cur.t.quantity) % CONVERTER_BATCH
        IN  /\ e_slice' = IF oBook = "ok"
                          THEN [ticker |-> "RITC", side |-> side, total |-> qty,
                                remaining |-> qty, passive |-> HasBest(bk, side),
                                ret |-> "regross"]
                          ELSE NoSlice
            /\ e_pc' = IF oBook = "ok" THEN "slice" ELSE "caught"
            /\ e_left' = e_left
            /\ e_auth' = (e_auth \/ oBook = "auth")
    /\ UNCHANGED <<engine, e_tick, e_secs, e_pos, e_gross, e_gross_limit, e_cur,
                   e_unw, e_log, e_fresh>>
    /\ UNCHANGED <<cvars, dvars>>

\* clip = min(DEFAULT_SLICE_SIZE, remaining, MAX_ORDER_SIZE), without the
\* slice size
TraderClipSizeNoSlice(remaining) == Min(remaining, MAX_ORDER_SIZE)

\* clip = min(DEFAULT_SLICE_SIZE, remaining, MAX_ORDER_SIZE)
TraderClipSize(remaining) ==
    Min(Min(DEFAULT_SLICE_SIZE, remaining), MAX_ORDER_SIZE)

\* the loop of slice_and_execute ends: `break` in the except clause, or
\* `while remaining > 0` is false
TraderLoopEnds(placed, rem) == ~placed \/ rem = 0

\* one pass of `while remaining > 0` of Executor.slice_and_execute
TraderClip ==
    /\ engine = "trader" /\ e_pc = "slice"
    /\ \E oCall \in Outcomes :
        LET clip == TraderClipSize(e_slice.remaining)
            typ  == IF e_slice.passive THEN "LIMIT" ELSE "MARKET"
            rem  == IF oCall = "ok" THEN e_slice.remaining - clip
                    ELSE e_slice.remaining
            done == TraderLoopEnds(oCall = "ok", rem)
        IN  /\ e_log' = Append(e_log, Req("order", e_slice.ticker, e_slice.side, typ,
                                          clip))
            /\ e_slice' = [e_slice EXCEPT !.remaining = rem]
            /\ e_pc' = IF done THEN RetPc(e_slice.ret, e_left) ELSE "slice"
            /\ e_auth' = (e_auth \/ oCall = "auth")
            /\ e_fresh' = (e_fresh /\ oCall # "ok")
    /\ UNCHANGED <<engine, e_tick, e_secs, e_pos, e_gross, e_gross_limit, e_left,
                   e_cur, e_unw>>
    /\ UNCHANGED <<cvars, dvars>>

\* the next offer taken with the gross of before the unwind
TraderRegrossSkipped ==
    /\ engine = "trader" /\ e_pc = "regross"
    /\ e_pc' = AfterOffer(e_left)
    /\ UNCHANGED <<engine, e_tick, e_secs, e_pos, e_gross, e_gross_limit, e_left,
                   e_cur, e_unw, e_slice, e_log, e_auth, e_fresh>>
    /\ UNCHANGED <<cvars, dvars>>

\* `# refresh gross`: get_securities, compute_inventory_gross
TraderRegross ==
    /\ engine = "trader" /\ e_pc = "regross"
    /\ \E oSecs \in Outcomes :
       \E rows \in (IF oSecs = "ok" THEN PositionRows
                    ELSE {[RITC |-> 0, BULL |-> 0, BEAR |-> 0]}) :
        /\ e_gross' = IF oSecs = "ok" THEN ComputeInventoryGross(rows) ELSE e_gross
        /\ e_pos' = IF oSecs = "ok" THEN rows.RITC ELSE e_pos
        /\ e_pc' = IF oSecs = "ok" THEN AfterOffer(e_left) ELSE "caught"
        /\ e_left' = e_left
        /\ e_auth' = (e_auth \/ oSecs = "auth")
        /\ e_fresh' = (e_fresh \/ oSecs = "ok")
    /\ UNCHANGED <<engine, e_tick, e_secs, e_gross_limit, e_cur, e_unw,
                   e_slice, e_log>>
    /\ UNCHANGED <<cvars, dvars>>

\* `if ENABLE_SPOT_ARB`: check_spot_arbitrage and the first leg
TraderSpot ==
    /\ engine = "trader" /\ e_pc = "spot"
    /\ \E oBook \in Outcomes :
       \E bk \in (IF oBook = "ok" THEN LoopBooks ELSE {NoBook}) :
        LET d == CheckSpotArbitrage(e_secs, bk)
        IN  /\ e_slice' = IF d = "HOLD" THEN NoSlice
                          ELSE [ticker |-> "RITC",
                                side |-> IF d = "BUY_ETF_SELL_BASKET" THEN "BUY"
                                         ELSE "SELL",
                                total |-> SPOT_ARB_ETF_CLIP,
                                remaining |-> SPOT_ARB_ETF_CLIP,
                                passive |-> FALSE, ret |-> "spot2"]
            /\ e_pc' = IF d = "HOLD" THEN "sleep" ELSE "slice"
            /\ e_auth' = (e_auth \/ oBook = "auth")
    /\ e_log' = <<>>
    /\ e_cur' = NoEval
    /\ e_unw' = NoUnwind
    /\ UNCHANGED <<engine, e_tick, e_secs, e_pos, e_gross, e_gross_limit, e_left,
                   e_fresh>>
    /\ UNCHANGED <<cvars, dvars>>

\* the basket legs of the spot arbitrage: BULL, then BEAR, on the other side
TraderSpotLeg ==
    /\ engine = "trader" /\ e_pc \in {"spot2", "spot3"}
    /\ e_slice' = [ticker |-> IF e_pc = "spot2" THEN "BULL" ELSE "BEAR",
                   side |-> IF e_pc = "spot3" THEN e_slice.side
                            ELSE IF e_slice.side = "SELL" THEN "BUY" ELSE "SELL",
                   total |-> SPOT_ARB_STOCK_CLIP, remaining |-> SPOT_ARB_STOCK_CLIP,
                   passive |-> FALSE,
                   ret |-> IF e_pc = "spot2" THEN "spot3" ELSE "end"]
    /\ e_pc' = "slice"
    /\ UNCHANGED <<engine, e_tick, e_secs, e_pos, e_gross, e_gross_limit, e_left,
                   e_cur, e_unw, e_log, e_auth, e_fresh>>
    /\ UNCHANGED <<cvars, dvars>>

\* the end of a pass without a handler that returns to the loop
LoopAgainAfterSleep ==
    /\ e_pc = "sleep"
    /\ e_pc' = "start"
    /\ e_secs' = InitSecs
    /\ e_pos' = 0
    /\ e_gross' = 0
    /\ e_left' = 0
    /\ e_cur' = NoEval
    /\ e_unw' = NoUnwind
    /\ e_slice' = NoSlice
    /\ e_fresh' = FALSE
    /\ e_log' = <<>>
    /\ UNCHANGED <<engine, e_tick, e_gross_limit, e_auth>>
    /\ UNCHANGED <<cvars, dvars>>

\* the end of a pass of `while True`: time.sleep on the normal path, or the
\* `except Exception` handler (report, sleep); the locals of the pass are dead
LoopAgain ==
    /\ e_pc \in {"sleep", "caught"}
    /\ e_pc' = "start"
    /\ e_secs' = InitSecs
    /\ e_pos' = 0
    /\ e_gross' = 0
    /\ e_left' = 0
    /\ e_cur' = NoEval
    /\ e_unw' = NoUnwind
    /\ e_slice' = NoSlice
    /\ e_fresh' = FALSE
    /\ e_log' = <<>>
    /\ UNCHANGED <<engine, e_tick, e_gross_limit, e_auth>>
    /\ UNCHANGED <<cvars, dvars>>

\* KeyboardInterrupt: break; the bot then runs its cleanup cancel_all_orders()
Interrupt ==
    /\ e_pc # "stopped"
    /\ e_pc' = "stopped"
    /\ \E oCancel \in Outcomes :
        /\ (engine = "trader" => oCancel = "ok")
        /\ e_log' = IF engine = "bot"
                    THEN <<Req("cancel", "", "", "", 0)>>
                    ELSE <<>>
        /\ e_auth' = (e_auth \/ oCancel = "auth")
    /\ e_secs' = InitSecs
    /\ e_pos' = 0
    /\ e_gross' = 0
    /\ e_left' = 0
    /\ e_cur' = NoEval
    /\ e_unw' = NoUnwind
    /\ e_slice' = NoSlice
    /\ e_fresh' = FALSE
    /\ UNCHANGED <<engine, e_tick, e_gross_limit>>
    /\ UNCHANGED <<cvars, dvars>>

EngineInit ==
    /\ engine \in {"bot", "trader"}
    /\ e_pc = "start"
    /\ e_tick = TICK_LIMIT - 1
    /\ e_secs = InitSecs
    /\ e_pos = 0
    /\ e_gross = 0
    /\ e_gross_limit \in (IF engine = "trader" THEN GrossLimits ELSE {MAX_GROSS_LIMIT})
    /\ e_left = 0
    /\ e_cur = NoEval
    /\ e_unw = NoUnwind
    /\ e_slice = NoSlice
    /\ e_log = <<>>
    /\ e_auth = FALSE
    /\ e_fresh = FALSE

-----------------------------------------------------------------------------
(* The slicer on its own: place_sliced_orders / Executor.slice_and_execute *)

\* total quantities a caller hands to the slicer
SliceQtys == {0, 1, 1999, 2000, 2001, 5000, 10000, 10001, 25000, -15000}

\* no slicing call is running
SliceInit ==
    /\ engine \in {"bot", "trader"}
    /\ e_pc = "returned"
    /\ e_tick = TICK_LIMIT - 1
    /\ e_secs = InitSecs
    /\ e_pos = 0
    /\ e_gross = 0
    /\ e_gross_limit = MAX_GROSS_LIMIT
    /\ e_left = 0
    /\ e_cur = NoEval
    /\ e_unw = NoUnwind
    /\ e_slice = NoSlice
    /\ e_log = <<>>
    /\ e_auth = FALSE
    /\ e_fresh = FALSE

\* the call and the lines before the loop: remaining = abs(int(qty)),
\* side = action.upper(); with remaining = 0 the loop body never runs.
\* `passive`: the bot got a price hint / the trader got a book with a best
\* price on its side and aggressive = False
SliceCall ==
    /\ e_pc = "returned"
    /\ \E qty \in SliceQtys, side \in {"BUY", "SELL"}, passive \in BOOLEAN :
        /\ e_slice' = [ticker |-> "RITC", side |-> side, total |-> Abs(qty),
                       remaining |-> Abs(qty), passive |-> passive,
                       ret |-> "returned"]
        /\ e_pc' = IF Abs(qty) > 0 THEN "slice" ELSE "returned"
    /\ e_log' = <<>>
    /\ UNCHANGED <<engine, e_tick, e_secs, e_pos, e_gross, e_gross_limit, e_left,
                   e_cur, e_unw, e_auth, e_fresh>>
    /\ UNCHANGED <<cvars, dvars>>

\* what the slicing call hands back to its caller: place_sliced_orders has
\* no return statement (None); slice_and_execute returns `results`, the
\* venue's answers for the orders that were placed
SliceReturn ==
    IF engine = "bot" THEN [kind |-> "None"]
    ELSE [kind |-> "results",
          results |-> IF e_slice.remaining > 0
                      THEN SubSeq(e_log, 1, Len(e_log) - 1)
                      ELSE e_log]

-----------------------------------------------------------------------------
(* The unwind of the single-file bot on its own: unwind_inventory *)

\* RITC positions found after the accept: none, half a block, one block, one
\* and a half, two and a half, long and short
UnwindPositions == {0, 5000, -5000, 10000, 15000, 25000, -25000}

\* books the cost estimate is read from: none, a wide one, and one whose
\* half spread plus half fee equals the conversion cost at FX 1
UnwindBooks == LoopBooks \cup { [bid |-> 1986, ask |-> 2014] }

\* the offer whose accept starts the unwind
UnwindTender ==
    [id |-> 1, ticker |-> "RITC", price |-> 1950, quantity |-> 5000,
     action |-> "SELL"]

\* main() just after accept_tender returned for the only offer of the pass
UnwindInit ==
    /\ engine = "bot"
    /\ e_pc = "refresh"
    /\ e_tick = TICK_LIMIT - 1
    /\ e_cur \in { [t |-> UnwindTender, book |-> bk, decision |-> "ACCEPT",
                     guard |-> FALSE, sent |-> "accept", ok |-> TRUE] :
                   bk \in LoopBooks }
    /\ e_secs \in { secs \in LoopSecurities :
                      /\ BotRowsPresent(secs)
                      /\ BotEvaluate(UnwindTender, secs, e_cur.book).decision
                            = "ACCEPT" }
    /\ e_pos = 0
    /\ e_gross = 0
    /\ e_gross_limit = MAX_GROSS_LIMIT
    /\ e_left = 0
    /\ e_unw = NoUnwind
    /\ e_slice = NoSlice
    /\ e_log = <<TenderReq("accept", UnwindTender.id)>>
    /\ e_auth = FALSE
    /\ e_fresh = FALSE

\* the unwind with every position of UnwindPositions
BotUnwind == UnwindInventory(UnwindPositions, UnwindBooks)

\* unwind_inventory returns nothing on every path: no return statement with
\* a value
UnwindReturn == [kind |-> "None"]

-----------------------------------------------------------------------------
(* The tender decision on its own *)

NoInput == [t |-> NoTender, secs |-> InitSecs, book |-> NoBook]
NoDecision == [decision |-> "NONE", side |-> "", edge |-> RZero,
               unwind_cost |-> RZero, min_needed |-> RZero]

\* no offer is being decided
DecideOff ==
    /\ d_pc = "off"
    /\ d_in = NoInput
    /\ d_out = NoDecision

\* one offer, the rows of one /securities reply, one book
DecideInit ==
    /\ d_pc = "input"
    /\ d_in \in [t : {x \in Tenders : x.id = 1}, secs : Securities, book : Books]
    /\ d_out = NoDecision

\* evaluate_and_maybe_accept_tender(t, secs) of the single-file bot, up to
\* the venue call; fair_value_and_edge raises when a row is missing
DecideBot ==
    /\ d_pc = "input"
    /\ d_pc' = "bot"
    /\ d_out' = IF BotRowsPresent(d_in.secs)
                THEN BotEvaluate(d_in.t, d_in.secs, d_in.book)
                ELSE [NoDecision EXCEPT !.decision = "RAISE"]
    /\ UNCHANGED <<d_in, cvars, evars>>

\* StrategyEngine.evaluate_tender(tender, quotes)
DecideStrategy ==
    /\ d_pc = "input"
    /\ d_pc' = "strategy"
    /\ d_out' = EvaluateTender(d_in.t, d_in.secs, d_in.book)
    /\ UNCHANGED <<d_in, cvars, evars>>

\* fair_value_and_edge(secs) of the single-file bot on its own; it raises
\* when a row is missing
DecideFairBot ==
    /\ d_pc = "input"
    /\ d_pc' = "fair_bot"
    /\ d_out' = IF BotRowsPresent(d_in.secs)
                THEN [decision |-> "NONE", fair |-> BotFairValueAndEdge(d_in.secs)]
                ELSE [decision |-> "RAISE", fair |-> BotFairValueAndEdge(InitSecs)]
    /\ UNCHANGED <<d_in, cvars, evars>>

\* StrategyEngine.compute_fair(quotes) on its own
DecideFairStrategy ==
    /\ d_pc = "input"
    /\ d_pc' = "fair_strategy"
    /\ d_out' = [decision |-> "NONE", fair |-> ComputeFair(d_in.secs)]
    /\ UNCHANGED <<d_in, cvars, evars>>

-----------------------------------------------------------------------------
(* The prices one pass of either loop works on *)

\* rows the venue shows at the moments of a pass
PassSecurities ==
    { [BULL |-> 1000, BEAR |-> 1000, RITC |-> 2000, USD |-> R(1, 1)],
      [BULL |-> 1004, BEAR |-> 998, RITC |-> 1600, USD |-> R(5, 4)],
      [BULL |-> 990, BEAR |-> 1003, RITC |-> 1990, USD |-> R(6, 5)] }

\* StrategyEngine.fetch_quotes: one GET per ticker, each reply gives the row
\* of its ticker to the one dictionary that is returned
FetchQuotes(etf, bull, bear, fx) ==
    [BULL |-> bull.BULL, BEAR |-> bear.BEAR, RITC |-> etf.RITC, USD |-> fx.USD]

\* a list that takes the new rows and keeps the FX row it had
SecsAfterRefreshKeepFx(held, fetched) == [fetched EXCEPT !.USD = held.USD]

\* main of the single-file bot: `secs = get_securities()` after an accept
\* binds the name to the new list
SecsAfterRefresh(held, fetched) == fetched

\* no fair value has been computed
NoFair == [fair |-> RZero, ritc |-> RZero, fx |-> RZero]

\* the top of a pass of `while True`, nothing fetched
PassInit ==
    /\ d_pc = "top"
    /\ d_in \in [program : {"bot", "trader"}, held : {InitSecs}, fetched : {<<>>}]
    /\ d_out = NoFair

\* bot: secs = get_securities(); trader: quotes = strategy.fetch_quotes()
PassFetch ==
    /\ d_pc = "top"
    /\ d_pc' = "held"
    /\ \E etf \in PassSecurities :
       \E bull \in (IF d_in.program = "bot" THEN {etf} ELSE PassSecurities) :
       \E bear \in (IF d_in.program = "bot" THEN {etf} ELSE PassSecurities) :
       \E fx \in (IF d_in.program = "bot" THEN {etf} ELSE PassSecurities) :
        LET got == IF d_in.program = "bot" THEN etf
                   ELSE FetchQuotes(etf, bull, bear, fx)
        IN  d_in' = [d_in EXCEPT !.held = got, !.fetched = <<got>>]
    /\ d_out' = NoFair
    /\ UNCHANGED <<cvars, evars>>

\* a fair-value computation of the pass: fair_value_and_edge(secs) in
\* evaluate_and_maybe_accept_tender, arb_pair_trade_if_edge and the report;
\* compute_fair(quotes) in evaluate_tender and check_spot_arbitrage
PassPrice ==
    /\ d_pc = "held"
    /\ d_pc' = "priced"
    /\ d_out' = IF d_in.program = "bot"
                THEN LET f == BotFairValueAndEdge(d_in.held)
                     IN  [fair |-> f.fv_cad, ritc |-> f.ritc_usd, fx |-> f.fx]
                ELSE LET f == ComputeFair(d_in.held)
                     IN  [fair |-> f.fair_cad, ritc |-> f.ritc_usd, fx |-> f.fx_rate]
    /\ UNCHANGED <<d_in, cvars, evars>>

\* bot, after an accepted offer: secs = get_securities(); the trader reads
\* quotes once in a pass
PassRefresh ==
    /\ d_pc = "priced"
    /\ d_in.program = "bot"
    /\ Len(d_in.fetched) < MaxFetches
    /\ d_pc' = "held"
    /\ \E got \in PassSecurities :
        d_in' = [d_in EXCEPT !.held = SecsAfterRefresh(d_in.held, got),
                             !.fetched = Append(@, got)]
    /\ UNCHANGED <<d_out, cvars, evars>>

-----------------------------------------------------------------------------
(* Volatility subsystem: src/VolTrading/strategy.py, main.py *)

TARGET_VEGA_PER_TRADE == 200
MAX_CONTRACTS_ORDER == 100
MAX_OPTION_GROSS == 2500

\* a vega that is not a number
NaN == [n |-> 0, d |-> 0]

\* vega of one contract in the signals of a tick
Vegas == { NaN, R(0, 1), R(-5, 1), R(1, 1), R(2, 1), R(3, 1), R(16, 1),
           R(80, 1), R(400, 1), R(500, 1) }

\* round(a / b) of Python for a, b > 0: to the nearest integer, a half to
\* the even one
RoundHalfEven(a, b) ==
    LET q == a \div b
        r == a % b
    IN  IF 2 * r < b THEN q
        ELSE IF 2 * r > b THEN q + 1
        ELSE IF q % 2 = 0 THEN q ELSE q + 1

\* size_by_vega(vega_per_contract)
SizeByVega(vega_per_contract) ==
    IF vega_per_contract = NaN \/ vega_per_contract.n <= 0 THEN 1
    ELSE LET n == RoundHalfEven(TARGET_VEGA_PER_TRADE * vega_per_contract.d,
                                vega_per_contract.n)
         IN  IF n < 1 THEN 1 ELSE Min(n, MAX_CONTRACTS_ORDER)

\* a check of the gross held now in place of the projected one
OverGrossHeld(current_option_gross, size) == current_option_gross > MAX_OPTION_GROSS

\* enforce_limits_and_place: projected_gross > MAX_OPTION_GROSS
OverGross(current_option_gross, size) ==
    current_option_gross + size > MAX_OPTION_GROSS

\* option gross compute_option_gross_net finds in the positions of a tick
StartGross == {0, 2300, 2400, 2450, 2499, 2500, 2600}

\* how post_order ends: the order echoed with its quantity, a reply without
\* a quantity, None for a reply that is not ok, or an exception of a request
OrderReplies == {"echo", "no_quantity", "none", "raise"}

\* main_loop after `opt_gross, opt_net = compute_option_gross_net(assets)`,
\* with `left` signals that carry a decision to go through
VolInit ==
    /\ d_pc = "signals"
    /\ d_in \in [left : 0..MaxSignals, start : StartGross]
    /\ d_out = [gross |-> d_in.start, before |-> d_in.start, size |-> 0,
                sent |-> FALSE]

\* one pass of `for s in signals` for a signal with a decision:
\* enforce_limits_and_place, then opt_gross += abs(int(order.get('quantity', 0)))
VolPass ==
    /\ d_pc = "signals"
    /\ d_in.left > 0
    /\ \E vega \in Vegas :
       \E reply \in OrderReplies :
        LET size    == SizeByVega(vega)
            refused == OverGross(d_out.gross, size)
            sent    == ~refused /\ reply # "raise"
            order   == sent /\ reply \in {"echo", "no_quantity"}
            qty     == IF order /\ reply = "echo" THEN size ELSE 0
        IN  /\ d_out' = [gross |-> d_out.gross + qty, before |-> d_out.gross,
                         size |-> size, sent |-> sent]
            /\ d_pc' = IF ~refused /\ reply = "raise" THEN "raised" ELSE "signals"
    /\ d_in' = [d_in EXCEPT !.left = @ - 1]
    /\ UNCHANGED <<cvars, evars>>

-----------------------------------------------------------------------------
(* Specifications *)

\* the client while it serves no call
ClientIdle ==
    /\ ClientInit
    /\ c_variant = "rit_client"
    /\ c_max_retries = MaxRetries

\* the loop before it is started
EngineIdle ==
    /\ EngineInit
    /\ engine = "bot"

\* the trading loop of either program
Init == EngineInit /\ ClientIdle /\ DecideOff

Next ==
    \/ BotCycleStart \/ BotSessionEnd \/ BotTender \/ BotRefresh \/ BotConvert
    \/ BotClip \/ BotSpot \/ BotSpotLeg
    \/ TraderCycleStart \/ TraderTender \/ TraderLeftover \/ TraderClip
    \/ TraderRegross \/ TraderSpot \/ TraderSpotLeg
    \/ LoopAgain \/ Interrupt

Spec == Init /\ [][Next]_vars

\* one transport serving calls
InitClient == ClientInit /\ EngineIdle /\ DecideOff

NextClient == ClientCall \/ ClientAttempt

SpecClient == InitClient /\ [][NextClient]_vars

\* the same with the loop of a call in progress going on: every request is
\* answered or times out, and every sleep ends
SpecClientLive == SpecClient /\ WF_vars(ClientAttempt)

\* the decision procedures applied to every offer of the input sets
InitDecide == DecideInit /\ ClientIdle /\ EngineIdle

NextDecide == DecideBot \/ DecideStrategy \/ DecideFairBot \/ DecideFairStrategy

SpecDecide == InitDecide /\ [][NextDecide]_vars

\* the prices of one pass
InitPass == PassInit /\ ClientIdle /\ EngineIdle

NextPass == PassFetch \/ PassPrice \/ PassRefresh

SpecPass == InitPass /\ [][NextPass]_vars

\* the option orders of one tick of the volatility loop
InitVol == VolInit /\ ClientIdle /\ EngineIdle

NextVol == VolPass

SpecVol == InitVol /\ [][NextVol]_vars

\* one unwind of the single-file bot from every position of UnwindPositions
InitUnwind == UnwindInit /\ ClientIdle /\ DecideOff

NextUnwind == BotUnwind \/ BotConvert \/ BotClip

SpecUnwind == InitUnwind /\ [][NextUnwind]_vars

\* the unwind with a conversion loop of any length; every call to the venue
\* is answered or fails, so a pass that has begun completes
NextUnwindLive == BotUnwind \/ BotConvert \/ BotConvertOn \/ BotClip

SpecUnwindLive == InitUnwind /\ [][NextUnwindLive]_vars /\ WF_vars(NextUnwindLive)

\* the slicer of either program called with every quantity of SliceQtys
InitSlice == SliceInit /\ ClientIdle /\ DecideOff

NextSlice == SliceCall \/ BotClip \/ TraderClip

SpecSlice == InitSlice /\ [][NextSlice]_vars

-----------------------------------------------------------------------------
(* Properties of the tender decision *)

\* the offer's per-share edge in CAD cents, times the denominator of the FX
\* rate: fair value minus the price paid when the engine buys (the offer
\* sells), the price received minus fair value when the engine sells
OfferEdgeScaled(t, secs) ==
    LET fx   == IF secs.USD = MissingFx THEN R(1, 1) ELSE secs.USD
        bull == IF secs.BULL = Missing THEN 0 ELSE secs.BULL
        bear == IF secs.BEAR = Missing THEN 0 ELSE secs.BEAR
        fair == (bull + bear) * fx.d
        paid == t.price * fx.n
    IN  IF t.action = "BUY" THEN paid - fair ELSE fair - paid

\* max(floor, min(spread / 2 + fee, converter cost per share) + buffer), times
\* twice the denominator of the FX rate; fee2 is twice the per-share fee
MinEdgeScaled(book, secs, floor, fee2, buffer, fallback) ==
    LET fx     == IF secs.USD = MissingFx THEN R(1, 1) ELSE secs.USD
        width  == IF book.ask > book.bid THEN book.ask - book.bid ELSE 0
        spread == IF book = BookError \/ book.bid = Missing \/ book.ask = Missing
                  THEN fallback * fx.d ELSE width * fx.n
        direct == spread + fee2 * fx.d
        conv   == ((2 * CONVERTER_COST) \div CONVERTER_BATCH) * fx.d
        unwind == IF direct <= conv THEN direct ELSE conv
        need   == unwind + 2 * buffer * fx.d
    IN  IF need >= 2 * floor * fx.d THEN need ELSE 2 * floor * fx.d

\* the minimum edge each program asks for the input being decided
DecideMinScaled ==
    IF d_pc = "bot"
    THEN MinEdgeScaled(d_in.book, d_in.secs, MIN_EDGE_TO_CONSIDER,
                       FEE_MARKET_PER_SHARE, SAFETY_BUFFER, BOT_FALLBACK_SPREAD)
    ELSE MinEdgeScaled(d_in.book, d_in.secs, MIN_ABS_EDGE, 2 * UNWIND_FEE,
                       ABS_BUFFER, BOOK_FALLBACK_SPREAD_CAD)

\* the scenario of the specification: fair value 20.00, FX 1, a book whose
\* spread makes the unwind cost 0.05, an offer that sells to the engine
Scenario(price) ==
    /\ d_in.secs.BULL = 1000 /\ d_in.secs.BEAR = 1000 /\ d_in.secs.USD = R(1, 1)
    /\ d_in.book = [bid |-> 1996, ask |-> 2004]
    /\ d_in.t.ticker = "RITC" /\ d_in.t.action = "SELL" /\ d_in.t.price = price

\* an offer has been evaluated in this pass of the loop
Evaluated == e_cur.t.id > 0

\* a request `op` ("accept" | "decline") for the evaluated offer was sent
SentFor(op) == \E i \in 1..Len(e_log) : e_log[i] = TenderReq(op, e_cur.t.id)

\* the program computed an edge for the evaluated offer: the trader always,
\* the bot for an offer on RITC once all four rows were read
EdgeComputed ==
    \/ engine = "trader"
    \/ (e_cur.t.ticker = "RITC" /\ BotRowsPresent(e_secs))

\* C1: an offer whose per-share edge is negative is decided DECLINE and no
\* accept request is sent for it, whichever side the offer is on and whatever
\* the fair value, the FX rate and the spread estimate are.
C1_NegativeEdgeDeclined ==
    (Evaluated /\ EdgeComputed /\ OfferEdgeScaled(e_cur.t, e_secs) < 0)
        => (e_cur.decision = "DECLINE" /\ ~SentFor("accept"))

\* C1 witness: an offer to buy from the engine below fair value was evaluated
\* and the decline went out.
C1_Witness ==
    /\ Evaluated /\ EdgeComputed
    /\ OfferEdgeScaled(e_cur.t, e_secs) < 0
    /\ e_cur.t.action = "BUY"
    /\ e_cur.decision = "DECLINE"
    /\ SentFor("decline")

\* C2: for an offer on RITC the decision is ACCEPT exactly when the edge is at
\* least max(floor, effective unwind cost + buffer); in the scenario (fair
\* value 20.00, floor 0.03, buffer 0.01, unwind cost 0.05) the minimum is 0.06,
\* the offer at 19.50 is accepted and the offer at 19.97 is declined.
C2_AcceptIffEdgeAtLeastMinimum ==
    (d_pc \in {"bot", "strategy"} /\ d_in.t.ticker = "RITC"
     /\ d_out.decision # "RAISE")
        => /\ d_out.decision \in {"ACCEPT", "DECLINE"}
           /\ (d_out.decision = "ACCEPT"
               <=> 2 * OfferEdgeScaled(d_in.t, d_in.secs) >= DecideMinScaled)
           /\ (Scenario(1950) \/ Scenario(1997) => REq(d_out.min_needed, R(6, 1)))
           /\ (Scenario(1950) => d_out.decision = "ACCEPT")
           /\ (Scenario(1997) => d_out.decision = "DECLINE")

\* C2 witness: the bot decided the scenario's offer at 19.50 and accepted.
C2_Witness ==
    /\ d_pc = "bot"
    /\ Scenario(1950)
    /\ d_out.decision = "ACCEPT"
    /\ REq(d_out.edge, R(50, 1))

\* C3: an evaluated offer that the engine did not accept (wrong instrument,
\* negative edge, edge below the minimum, risk guard, failed accept) has an
\* explicit decline request sent for its id.
C3_EveryRefusalDeclined ==
    Evaluated => \/ (e_cur.sent = "accept" /\ e_cur.ok)
                 \/ SentFor("decline")

\* C4: an offer on an instrument other than RITC is never accepted and a
\* decline is issued for it.
C4_ForeignInstrumentDeclined ==
    (Evaluated /\ e_cur.t.ticker # "RITC")
        => (e_cur.sent = "decline" /\ ~SentFor("accept"))

\* the step hands no tender, order or conversion request to the venue
IssuesNothing ==
    \/ e_log' = e_log
    \/ \A i \in 1..Len(e_log') : e_log'[i].op = "cancel"

\* C9: once a venue call of the loop has failed with an authentication
\* failure, the loop issues no further tender, order or conversion request.
C9_AuthFailureEndsSession == [][e_auth => IssuesNothing]_vars

-----------------------------------------------------------------------------
(* Properties of the client *)

\* rate-limit and server-error statuses
Transient == {429, 500}

\* every response of the call so far carried this status
AllStatuses(code) ==
    /\ Len(c_statuses) >= 1
    /\ \A i \in 1..Len(c_statuses) : c_statuses[i] = code

\* the call so far received only transient statuses and then one 200
TransientThenSuccess ==
    /\ Len(c_statuses) >= 1
    /\ c_statuses[Len(c_statuses)] = 200
    /\ \A i \in 1..(Len(c_statuses) - 1) : c_statuses[i] \in Transient

\* the interval a rate-limited response advises, in half seconds: the header
\* when the client can read it, else the body field, else 1 s
AdvisedWait(variant, resp) ==
    IF HeaderWait(variant, resp.hdr).k = "some" THEN resp.hdr.v
    ELSE IF resp.body.k = "num" THEN resp.body.v
    ELSE DefaultWait

\* a delay that starts at 0.5 s and doubles: 0.5, 1, 2, 4, ... in half seconds
RECURSIVE Doubling(_)
Doubling(k) == IF k <= 1 THEN 1 ELSE 2 * Doubling(k - 1)

\* C5: with max_retries = N, a call answered 429 every time sends exactly
\* N + 1 requests, sleeps the advised wait before each retry, and raises
\* RITRateLimit only once the bound is exceeded.
C5_RateLimitRetryBound ==
    (c_variant \in RITClients /\ AllStatuses(429))
        => /\ c_pc # "returned"
           /\ Len(c_sent) <= c_max_retries + 1
           /\ (c_pc = "raised"
               => /\ c_result = [kind |-> "raise", val |-> "RITRateLimit"]
                  /\ Len(c_sent) = c_max_retries + 1
                  /\ Len(c_sleeps) = c_max_retries)
           /\ (c_pc = "loop"
               => /\ Len(c_sleeps) = Len(c_statuses)
                  /\ c_sleeps[Len(c_sleeps)] = AdvisedWait(c_variant, c_last))

\* C5, the retry bound alone: N + 1 requests, N sleeps, RITRateLimit at the
\* end and not before.
C5_RetryBoundAlone ==
    (c_variant \in RITClients /\ AllStatuses(429))
        => /\ c_pc # "returned"
           /\ Len(c_sent) <= c_max_retries + 1
           /\ (c_pc = "raised" <=> Len(c_sent) = c_max_retries + 1)
           /\ (c_pc = "raised"
               => c_result = [kind |-> "raise", val |-> "RITRateLimit"])
           /\ Len(c_sleeps) = IF c_pc = "raised" THEN c_max_retries
                              ELSE Len(c_statuses)

\* C6: after a 429 the client sleeps the advised interval (the Retry-After
\* header when present and parseable, otherwise the body field "wait",
\* otherwise 1 s) and sends the same request again.
C6_SleepsAdvisedWait ==
    (c_variant \in RITClients /\ c_pc = "loop" /\ Len(c_statuses) >= 1
     /\ c_statuses[Len(c_statuses)] = 429)
        => /\ Len(c_sleeps) = Len(c_statuses)
           /\ c_sleeps[Len(c_sleeps)] = AdvisedWait(c_variant, c_last)
           /\ \A i \in 1..Len(c_sent) : c_sent[i] = c_req

\* C7: a 5xx answer to the k-th request is followed by a sleep of
\* 0.5 * 2^(k-1) s, there are at most max_retries retries, and a call whose
\* every attempt fails with 5xx raises RITError after max_retries + 1 requests.
C7_ServerErrorBackoff ==
    c_variant \in RITClients
        => /\ \A k \in 1..Len(c_sleeps) :
                c_statuses[k] = 500 => c_sleeps[k] = Doubling(k)
           /\ Len(c_sleeps) <= c_max_retries
           /\ (AllStatuses(500)
               => /\ c_pc # "returned"
                  /\ (c_pc = "raised" <=> Len(c_sent) = c_max_retries + 1)
                  /\ (c_pc = "raised"
                      => c_result = [kind |-> "raise", val |-> "RITError"])
                  /\ (c_pc = "loop" => Len(c_sleeps) = Len(c_statuses)))

\* C7 witness: every attempt failed with 5xx, the delays 0.5, 1, 2 s were
\* slept and the call raised RITError.
C7_Witness ==
    /\ c_variant \in RITClients
    /\ AllStatuses(500)
    /\ c_pc = "raised"
    /\ c_max_retries >= 3
    /\ Len(c_sent) = c_max_retries + 1
    /\ SubSeq(c_sleeps, 1, 3) = <<1, 2, 4>>
    /\ c_result.val = "RITError"

\* C8: a 401 on any attempt ends the call at once with RITAuthError: it is
\* the last response, no sleep follows it and no request is sent after it.
C8_AuthFailureImmediate ==
    c_variant \in RITClients
        => \A k \in 1..Len(c_statuses) :
              c_statuses[k] = 401
                  => /\ k = Len(c_statuses)
                     /\ c_pc = "raised"
                     /\ c_result = [kind |-> "raise", val |-> "RITAuthError"]
                     /\ Len(c_sent) = k
                     /\ Len(c_sleeps) = k - 1

\* C8 witness: a 401 came after two transient responses and the call raised.
C8_Witness ==
    /\ c_variant \in RITClients
    /\ Len(c_statuses) = 3
    /\ c_statuses[1] = 429 /\ c_statuses[2] = 500 /\ c_statuses[3] = 401
    /\ c_pc = "raised"
    /\ c_result.val = "RITAuthError"
    /\ Len(c_sleeps) = 2

\* C10: a call that received k <= max_retries transient responses and then a
\* success returns that success, and a transient response makes the call
\* raise only when the retries are exhausted.
C10_TransientAbsorbed ==
    /\ (c_pc = "raised" /\ Len(c_statuses) >= 1
        /\ c_statuses[Len(c_statuses)] \in Transient)
           => Len(c_statuses) > c_max_retries
    /\ (TransientThenSuccess /\ c_last.payload = "json"
        /\ Len(c_statuses) - 1 <= c_max_retries)
           => (c_pc = "returned" /\ c_result = [kind |-> "return", val |-> "json"])

\* C10, for class RITClient alone.
C10_RITClientAbsorbs == c_variant \in RITClients => C10_TransientAbsorbed


\* methods whose request changes the venue: POST and DELETE
Mutating(req) == req[1] \in {"POST", "DELETE"}

\* C11: a call of a mutating endpoint (submit order, accept, decline, cancel,
\* conversion) delivers its request to the venue at most once, whatever the
\* venue answers, rate-limit and server-error statuses included
C11_MutationAtMostOnce ==
    Mutating(c_req) => Len(c_sent) <= 1

\* C11, the part that holds: the one-shot wrappers of the single-file bot
\* deliver a mutating request once
C11_WrappersAtMostOnce ==
    (c_variant = "bot_http" /\ Mutating(c_req)) => Len(c_sent) <= 1

-----------------------------------------------------------------------------
(* Properties of the slicer *)

\* the configured maximum order size of each program
MaxOrderSize == IF engine = "bot" THEN MAX_ORDER ELSE MAX_ORDER_SIZE

\* the largest clip each program cuts
MaxClip == IF engine = "bot" THEN MAX_ORDER
           ELSE Min(DEFAULT_SLICE_SIZE, MAX_ORDER_SIZE)

Orders == { i \in 1..Len(e_log) : e_log[i].op = "order" }

RECURSIVE SumQty(_)
SumQty(log) == IF log = <<>> THEN 0 ELSE log[1].qty + SumQty(Tail(log))

Ceil(q, m) == (q + m - 1) \div m

\* the slicing call is over
SliceOver == e_pc = "returned" /\ e_slice.ret = "returned"

\* the call is over and no submission failed: nothing remains, and no market
\* order was needed after a limit order
NoFailure ==
    /\ SliceOver
    /\ e_slice.remaining = 0
    /\ \A i \in Orders :
         e_log[i].typ = (IF e_slice.passive THEN "LIMIT" ELSE "MARKET")

\* C12: no order request of the slicer, limit or market, the fallback market
\* order included, has a quantity above the configured maximum order size,
\* whatever total is asked for
C12_ClipWithinMaxOrder ==
    \A i \in Orders : e_log[i].qty <= MaxOrderSize

\* a total of 2.5 times the cap: the fallback market order of a full clip
C12_Witness ==
    /\ engine = "bot"
    /\ e_slice.total = 25000 /\ e_slice.passive
    /\ Len(e_log) = 2
    /\ e_log[1].typ = "LIMIT" /\ e_log[1].qty = MAX_ORDER
    /\ e_log[2].typ = "MARKET" /\ e_log[2].qty = MAX_ORDER

\* C13: when no submission fails, a total Q is cut into exactly ceil(|Q|/M)
\* clips, M the largest clip of the program, each between 1 and M, summing
\* to |Q|; Q = 0 submits nothing
C13_ClipCountAndSum ==
    NoFailure =>
        /\ Len(e_log) = Ceil(e_slice.total, MaxClip)
        /\ \A i \in 1..Len(e_log) :
             /\ e_log[i].op = "order"
             /\ e_log[i].qty >= 1 /\ e_log[i].qty <= MaxClip
        /\ SumQty(e_log) = e_slice.total
        /\ (e_slice.total = 0 => e_log = <<>>)

\* 10001 shares by the trader: five clips of 2000 and one of 1
C13_Witness ==
    /\ engine = "trader"
    /\ NoFailure
    /\ e_slice.total = 10001
    /\ Len(e_log) = 6
    /\ e_log[6].qty = 1

\* the requests a step adds to the log
Added == SubSeq(e_log', Len(e_log) + 1, Len(e_log'))

\* a step of a passive slicing call whose limit order failed: the clip was
\* not placed, or a second request was needed
LimitFailed ==
    /\ e_pc = "slice" /\ e_slice.passive
    /\ Len(Added) >= 1 /\ Added[1].typ = "LIMIT"
    /\ (e_slice'.remaining = e_slice.remaining \/ Len(Added) > 1)

\* the step sent the market order for the clip of its limit order
MarketFollows ==
    /\ Len(Added) = 2
    /\ Added[2] = [Added[1] EXCEPT !.typ = "MARKET"]

\* C14: when the limit order of a clip fails, the slicer sends a market order
\* for the same clip (ticker, side, quantity) before it goes on, and the next
\* clip is sent only after one of the two was placed
C14_MarketAfterFailedLimit ==
    [][ /\ LimitFailed => MarketFollows
        /\ (e_pc = "slice" /\ e_pc' = "slice")
              => e_slice'.remaining < e_slice.remaining ]_vars

\* C14, for place_sliced_orders of the single-file bot alone
C14_BotMarketAfterFailedLimit ==
    [][ engine = "bot" =>
          /\ LimitFailed => MarketFollows
          /\ (e_pc = "slice" /\ e_pc' = "slice")
                => e_slice'.remaining < e_slice.remaining ]_vars

\* a step whose market order failed: the clip was not placed and the last
\* request of the step is a market order
MarketFailed ==
    /\ e_pc = "slice"
    /\ Len(Added) >= 1 /\ Added[Len(Added)].typ = "MARKET"
    /\ e_slice'.remaining = e_slice.remaining

\* C15: when the market order of a clip fails, the slicing call ends: it
\* sends no further order request
C15_StopsAfterFailedMarket ==
    [][ MarketFailed => e_pc' = "returned" ]_vars

\* the bot halted on the second clip of 25000: its limit and its market order
\* failed, 15000 are left and the call is over
C15_Witness ==
    /\ engine = "bot" /\ SliceOver
    /\ e_slice.total = 25000 /\ e_slice.remaining = 15000 /\ e_slice.passive
    /\ Len(e_log) = 3
    /\ e_log[3].typ = "MARKET"

\* the returned value carries a remainder
ReportsRemainder == "remainder" \in DOMAIN SliceReturn

\* C16: a slicing call that halts on a failed clip hands its caller the
\* unexecuted remainder, the total minus the clips placed
C16_RemainderReported ==
    (SliceOver /\ e_slice.remaining > 0)
        => /\ ReportsRemainder
           /\ SliceReturn.remainder = e_slice.remaining

-----------------------------------------------------------------------------
(* Properties of the unwind *)

\* an unwind has chosen its path
Unwinding == e_unw.start > 0

\* conversion requests sent: every conversion opens with its lease request
LeaseRequests == Cardinality({ i \in 1..Len(e_log) : e_log[i].op = "lease" })

\* every conversion so far succeeded and moved the position by one block
AllMoved ==
    /\ e_unw.last # "failed"
    /\ Abs(e_pos) = e_unw.start - e_unw.convs * CONVERTER_BATCH

\* every conversion request precedes every order request
ConversionsBeforeOrders ==
    \A i, j \in 1..Len(e_log) :
        (e_log[i].op = "order" /\ e_log[j].op \in {"lease", "use_lease"}) => j < i

\* C17: on the conversion path, when every conversion succeeds and moves one
\* block, a position of |pos| shares gets exactly |pos| div block conversions
\* and then the slicer is handed |pos| mod block; 2.5 blocks: two conversions,
\* then half a block sliced
C17_BlocksThenRemainder ==
    (Unwinding /\ e_unw.prefer /\ AllMoved /\ e_pc \in {"slice", "spot"}) =>
        /\ e_unw.convs = e_unw.start \div CONVERTER_BATCH
        /\ LeaseRequests = e_unw.convs
        /\ ConversionsBeforeOrders
        /\ IF e_unw.start % CONVERTER_BATCH = 0
           THEN e_slice = NoSlice
           ELSE /\ e_slice.ticker = "RITC"
                /\ e_slice.total = e_unw.start % CONVERTER_BATCH

\* a short position of 2.5 blocks: two conversions done, 5000 handed to the
\* slicer and its first order sent
C17_Witness ==
    /\ e_unw.prefer /\ e_unw.start = 25000 /\ e_pos = -5000
    /\ e_unw.convs = 2 /\ LeaseRequests = 2 /\ e_unw.last = "ok"
    /\ e_slice.total = 5000 /\ e_slice.side = "BUY"
    /\ \E i \in Orders : e_log[i].qty = 5000

\* C18: after a failed conversion attempt the unwind makes no further
\* attempt, and the slicer is handed the whole position that is left, not the
\* part below one block
C18_FailedConversionFallsBack ==
    (engine = "bot" /\ Unwinding /\ e_unw.last = "failed") =>
        /\ e_pc # "convert"
        /\ LeaseRequests = e_unw.convs
        /\ e_slice.ticker = "RITC"
        /\ e_slice.side = (IF e_pos > 0 THEN "SELL" ELSE "BUY")
        /\ e_slice.total = Abs(e_pos)
        /\ e_slice.total >= CONVERTER_BATCH

\* 2.5 blocks: the first conversion moved a block, the second failed, and the
\* slicer got 15000
C18_Witness ==
    /\ engine = "bot"
    /\ e_unw.start = 25000 /\ e_unw.convs = 2 /\ e_unw.last = "failed"
    /\ e_pos = 15000
    /\ e_slice.total = 15000 /\ e_slice.side = "SELL"
    /\ e_pc = "slice"

\* the estimate of the order-execution cost per share, half the spread plus
\* the fee part, does not exceed the conversion cost per share; both sides
\* scaled by 2 * CONVERTER_BATCH * (denominator of the FX rate)
DirectFavoured ==
    LET book     == e_unw.book
        fx       == e_secs.USD
        fallback == IF engine = "bot" THEN BOT_FALLBACK_SPREAD
                    ELSE BOOK_FALLBACK_SPREAD_CAD
        fee2     == IF engine = "bot" THEN FEE_MARKET_PER_SHARE
                    ELSE 2 * UNWIND_FEE
        spread   == IF book.bid = Missing \/ book.ask = Missing
                    THEN fallback * fx.d
                    ELSE (IF book.ask > book.bid THEN book.ask - book.bid ELSE 0)
                         * fx.n
    IN  (spread + fee2 * fx.d) * CONVERTER_BATCH <= 2 * fx.d * CONVERTER_COST

\* no conversion is invoked and the slicer gets the whole position
DirectOnly ==
    /\ e_unw.convs = 0
    /\ LeaseRequests = 0
    /\ e_pc \notin {"leftover", "caught"}
          => (e_slice.ticker = "RITC" /\ e_slice.total = e_unw.start)

\* C19: when the estimated order-execution cost per share is at most the
\* conversion cost per share, a tie included, the unwind invokes no
\* conversion and hands the whole |position| to the slicer
C19_DirectWhenNotCheaper ==
    (Unwinding /\ DirectFavoured) => DirectOnly

\* C19, for unwind_inventory of the single-file bot alone, the converse
\* included: the conversion loop is entered only when the estimate is above
\* the conversion cost
C19_BotDirectWhenNotCheaper ==
    (engine = "bot" /\ Unwinding) =>
        /\ DirectFavoured => DirectOnly
        /\ e_unw.prefer <=> ~DirectFavoured

\* what is left of the position when the unwind is over: what the slicer did
\* not place, or the position when the slicer was not called
Uncovered ==
    IF e_slice.ticker = "RITC" THEN e_slice.remaining ELSE Abs(e_pos)

\* C20: when the unwind of an accepted offer returns, the position is
\* covered by conversions and placed orders, or the unwind reports the
\* uncovered quantity as unresolved
C20_CoveredOrReported ==
    (Unwinding /\ e_pc = AfterOffer(e_left)) =>
        \/ Uncovered = 0
        \/ "unresolved" \in DOMAIN UnwindReturn

-----------------------------------------------------------------------------
(* Properties of the client: the not-found answer *)

\* the call ended on a 404 answer
EndedOnNotFound ==
    /\ Len(c_statuses) >= 1
    /\ c_statuses[Len(c_statuses)] = 404

\* the 404 was surfaced at once: the call raised on it and slept only after
\* the answers before it
SurfacedAtOnce ==
    /\ c_pc = "raised"
    /\ Len(c_sent) = Len(c_statuses)
    /\ Len(c_sleeps) = Len(c_statuses) - 1

\* C29: a 404 answer is handed to the caller as a not-found result of its
\* own, not the failure any other status gives, at once: no retry and no
\* sleep follow it
C29_NotFoundSurfaced ==
    (c_variant \in RITClients /\ EndedOnNotFound) =>
        /\ SurfacedAtOnce
        /\ c_result = [kind |-> "raise", val |-> "RITNotFound"]

\* C29, for the copy of the class in src/ETFArbitrage/etf_arb_bot.py alone
C29_LibraryNotFoundSurfaced ==
    (c_variant = "etf_arb_bot" /\ EndedOnNotFound) =>
        /\ SurfacedAtOnce
        /\ c_result = [kind |-> "raise", val |-> "RITNotFound"]

-----------------------------------------------------------------------------
(* Properties of a pass of the trading loop *)

\* a row the prices are taken from is absent from the data the pass holds
AnyMissing(secs) ==
    \/ secs.BULL = Missing \/ secs.BEAR = Missing
    \/ secs.RITC = Missing \/ secs.USD = MissingFx

\* the requests a step hands to the venue: the new entries of the log
IssuedNow(ops) ==
    \E i \in 1..Len(e_log') :
        /\ e_log'[i].op \in ops
        /\ (i > Len(e_log) \/ e_log'[i] # e_log[i])

\* a tender accept, an order, or a conversion
Economic == {"accept", "order", "lease", "use_lease"}

\* C28: while a required row (RITC, BULL, BEAR or USD) is absent from the
\* data fetched, the pass prices nothing from a default and issues no tender
\* accept, no order and no conversion
C28_MissingInstrumentSkipsCycle ==
    [][ AnyMissing(e_secs) => ~IssuedNow(Economic) ]_vars

\* C28, for the single-file bot alone
C28_BotMissingInstrumentSkipsCycle ==
    [][ (engine = "bot" /\ AnyMissing(e_secs)) => ~IssuedNow(Economic) ]_vars

-----------------------------------------------------------------------------
(* Properties of the fair value *)

\* the same rows with another FX rate
WithFx(secs, fx) == [secs EXCEPT !.USD = fx]

\* C30: the fair value is the sum of the constituent prices, tied to the other
\* currency through the FX rate; with only the FX rate changed the constituent
\* sum stays and the converted RITC price scales with the rate
C30_FairValueIsConstituentSum ==
    /\ (d_pc = "fair_bot" /\ d_out.decision # "RAISE") =>
          /\ REq(d_out.fair.fv_cad, R(d_in.secs.BULL + d_in.secs.BEAR, 1))
          /\ d_out.fair.ritc_cad.n * d_in.secs.USD.d
                = d_in.secs.RITC * d_in.secs.USD.n * d_out.fair.ritc_cad.d
          /\ \A fx \in FxRates :
               LET other == BotFairValueAndEdge(WithFx(d_in.secs, fx))
               IN  /\ REq(other.fv_cad, d_out.fair.fv_cad)
                   /\ REq(RMul(other.ritc_cad, d_in.secs.USD),
                          RMul(d_out.fair.ritc_cad, fx))
    /\ (d_pc = "fair_strategy" /\ ~AnyMissing(d_in.secs)) =>
          /\ REq(d_out.fair.fair_cad, R(d_in.secs.BULL + d_in.secs.BEAR, 1))
          /\ REq(RMul(d_out.fair.fair_usd, d_in.secs.USD), d_out.fair.fair_cad)
          /\ \A fx \in FxRates :
               LET other == ComputeFair(WithFx(d_in.secs, fx))
               IN  /\ REq(other.fair_cad, d_out.fair.fair_cad)
                   /\ REq(RMul(other.fair_usd, fx),
                          RMul(d_out.fair.fair_usd, d_in.secs.USD))

\* BULL 10.00 + BEAR 10.00, RITC 16.00 USD at 1.25 CAD per USD: fair value
\* 20.00 CAD, RITC 20.00 CAD
C30_Witness ==
    /\ d_pc = "fair_bot"
    /\ d_in.secs = [BULL |-> 1000, BEAR |-> 1000, RITC |-> 1600, USD |-> R(5, 4)]
    /\ REq(d_out.fair.fv_cad, R(2000, 1))
    /\ REq(d_out.fair.ritc_cad, R(2000, 1))

-----------------------------------------------------------------------------
(* Properties of the session loop *)

CancelAll == Req("cancel", "", "", "", 0)

\* C26: whenever the session loop has been left, by the time limit or by an
\* interrupt, a cancel-all request was issued on the way out
C26_CancelAllOnExit == e_pc = "stopped" => e_log = <<CancelAll>>

\* C26 for the single-file bot alone, whose cleanup follows the loop
C26_BotCancelAllOnExit ==
    (engine = "bot" /\ e_pc = "stopped") => e_log = <<CancelAll>>


\* C25: in a pass that begins with the tick at or past the limit no tender is
\* accepted, no order is sent and no conversion is requested
C25_NothingAfterTimeLimit ==
    [][ e_tick >= TICK_LIMIT => ~IssuedNow(Economic) ]_vars

\* C25 for the single-file bot alone, which reads the tick first in each pass
C25_BotNothingAfterTimeLimit ==
    [][ (engine = "bot" /\ e_tick >= TICK_LIMIT) => ~IssuedNow(Economic) ]_vars


-----------------------------------------------------------------------------
(* Properties of the offers of a pass *)

Resolutions == {"accept", "decline"}

\* this step sends an accept or a decline for offer `tid`
ResolvedNow(tid) ==
    \E i \in 1..Len(e_log') :
        /\ e_log'[i].op \in Resolutions /\ e_log'[i].qty = tid
        /\ (i > Len(e_log) \/ e_log'[i] # e_log[i])

\* C23: in a pass with complete market data every offer the for-loop takes
\* from the feed gets its accept or its decline, and no offer of the feed is
\* left when the pass ends and the next one begins
C23_EveryOfferResolved ==
    [][ ~AnyMissing(e_secs) =>
          /\ (e_pc = "tenders" /\ e_pc' # "stopped" /\ e_left' < e_left)
                => ResolvedNow(e_left)
          /\ (e_pc # "start" /\ e_pc' = "start") => e_left = 0 ]_vars

\* the accepts and declines in the request log
ResolutionsInLog == { i \in 1..Len(e_log) : e_log[i].op \in Resolutions }

\* C24: the requests made for an offer hold at most one resolution, the one
\* decided for the offer under evaluation, and that offer is no longer among
\* the offers the pass has yet to visit
C24_OneResolutionPerOffer ==
    /\ Cardinality(ResolutionsInLog) <= 1
    /\ \A i \in ResolutionsInLog :
          /\ e_log[i] = TenderReq(e_cur.sent, e_cur.t.id)
          /\ e_cur.t.id > e_left

\* the first of two offers accepted and being unwound, the other still to come
C24_Witness ==
    /\ e_pc = "slice" /\ e_left = 1
    /\ e_cur.t.id = 2 /\ e_cur.ok
    /\ e_log[1] = TenderReq("accept", 2)
    /\ Len(e_log) >= 2


\* where the unwind of an accepted offer is under way
UnwindPcs == {"refresh", "convert", "slice", "leftover", "regross"}

\* this step accepts an offer
AcceptedNow == e_pc = "tenders" /\ e_cur'.sent = "accept" /\ e_cur'.ok

\* C21: the step that accepts an offer hands over to the unwind (or to the
\* handler of the loop, when the unwind fails at once), and until the unwind
\* is over no offer is evaluated, accepted or declined
C21_UnwindBeforeNextOffer ==
    [][ /\ AcceptedNow => e_pc' \in {"refresh", "leftover", "regross", "caught"}
        /\ (e_pc \in UnwindPcs /\ e_cur.sent = "accept" /\ e_pc' # "stopped")
              => /\ e_cur' = e_cur
                 /\ \A tid \in 1..(MaxTenders + 1) : ~ResolvedNow(tid) ]_vars

\* the first of two offers accepted, the refresh of the unwind next
C21_Witness ==
    /\ e_pc = "refresh" /\ e_left = 1
    /\ e_cur.sent = "accept" /\ e_cur.ok


\* C27: an error that reaches the handler of the loop does not end the run:
\* nothing more is requested in that pass, the next pass can begin, and the
\* loop is left only by the time limit or by an interrupt
C27_BadCycleDoesNotEndRun ==
    [][ /\ e_pc = "caught" =>
              /\ ENABLED LoopAgain
              /\ e_pc' \in {"start", "stopped"}
              /\ e_pc' = "start" => e_log' = <<>>
        /\ (e_pc # "stopped" /\ e_pc' = "stopped") => (Interrupt \/ BotSessionEnd)
      ]_vars

\* a decline that failed was caught by the handler of the loop with another
\* offer of the feed not yet visited
C27_Witness ==
    /\ e_pc = "caught" /\ e_left = 1
    /\ e_cur.sent = "decline" /\ ~e_cur.ok


\* a request for the offer under evaluation has failed in this pass
RequestFailed == Evaluated /\ e_cur.sent # "none" /\ ~e_cur.ok

\* C27 as stated, for every failure inside a pass: once a request of the pass
\* has failed, the pass sends nothing more
C27_FailureStopsThePass ==
    [][ (RequestFailed /\ e_pc' # "stopped") => e_log' \in {e_log, <<>>} ]_vars


-----------------------------------------------------------------------------
(* Properties of the positions a pass works with *)

\* the slicing call of an unwind before its first clip: quantity and side
\* come from the position
UnwindSliceStarts ==
    /\ engine = "bot" /\ e_pc = "slice"
    /\ e_slice.ret = "offer" /\ e_slice.remaining = e_slice.total

-----------------------------------------------------------------------------
(* Properties of the client: the other statuses *)

\* a status that is no success, 401, 404, 429 or 5xx
OtherStatus(code) ==
    /\ ~(code >= 200 /\ code < 300)
    /\ code \notin {401, 404, 429}
    /\ ~(code >= 500 /\ code < 600)

EndedOnOther ==
    /\ Len(c_statuses) >= 1
    /\ OtherStatus(c_statuses[Len(c_statuses)])

\* C31: a response with any other non-success status ends the call at once
\* with the generic error, whose message names the status and the body; no
\* request and no sleep follow it
C31_OtherStatusSurfaced ==
    (c_variant \in RITClients /\ EndedOnOther) =>
        /\ SurfacedAtOnce
        /\ c_result = [kind |-> "raise", val |-> "RITError"]
        /\ c_msg = [status |-> c_last.status, body |-> c_last.payload]

\* a 403 after one rate-limit answer
C31_Witness ==
    /\ c_variant = "rit_client" /\ c_pc = "raised"
    /\ c_statuses = <<429, 403>>
    /\ c_msg = [status |-> 403, body |-> "text"]


-----------------------------------------------------------------------------
(* Properties of the client: the size of a call *)

\* C36: whatever the venue answers, in whatever order, a call sends at most
\* max_retries + 1 requests, its one counter covering the retries of both
\* kinds, and a call in progress ends with a value or an error
C36_CallBoundedAndEnds ==
    /\ [](c_variant \in RITClients =>
            /\ Len(c_sent) <= c_max_retries + 1
            /\ c_attempt = Len(c_sent))
    /\ (c_variant \in RITClients /\ c_pc = "loop")
          ~> (c_pc \in {"returned", "raised"})

\* a call of bound 2 ended by the third answer, after a 429 and a 500
C36_Witness ==
    /\ c_variant = "etf_arb_bot" /\ c_max_retries = 2
    /\ c_statuses = <<429, 500, 429>>
    /\ c_pc = "raised" /\ c_result.val = "RITRateLimit"


(* Properties of the tender decision: the edge by side *)

\* the same offer seen from the other side
OtherSide(t) ==
    [t EXCEPT !.action = IF t.action = "BUY" THEN "SELL" ELSE "BUY"]

\* the opposite of a rational
Negated(a, b) == REq(RAdd(a, b), RZero)

\* the offer price of the decided offer in the common currency
OfferCad == RMul(R(d_in.t.price, 1), d_in.secs.USD)

\* the fair value of the decided rows in the common currency
FairCad == RAdd(R(d_in.secs.BULL, 1), R(d_in.secs.BEAR, 1))

\* an offer on the composite decided on complete rows
DecidedOnRows ==
    /\ d_pc \in {"bot", "strategy"}
    /\ d_in.t.ticker = "RITC"
    /\ ~AnyMissing(d_in.secs)
    /\ d_out.decision # "RAISE"

\* C32: the edge of a decided offer is fair value minus offer price when the
\* offer's side is SELL (the engine buys) and offer price minus fair value
\* when the engine sells, both in the common currency, and the edge of the
\* same offer at the same prices on the other side is its exact negative
C32_EdgeBySide ==
    DecidedOnRows =>
        /\ d_out.side = "SELL" => REq(d_out.edge, RSub(FairCad, OfferCad))
        /\ d_out.side # "SELL" => REq(d_out.edge, RSub(OfferCad, FairCad))
        /\ d_pc = "bot" =>
             Negated(d_out.edge,
                     BotEvaluate(OtherSide(d_in.t), d_in.secs, d_in.book).edge)
        /\ d_pc = "strategy" =>
             Negated(d_out.edge,
                     EvaluateTender(OtherSide(d_in.t), d_in.secs, d_in.book).edge)

C32_Witness ==
    /\ DecidedOnRows
    /\ d_pc = "bot"
    /\ d_in.t.action = "BUY"
    /\ d_in.secs.USD = R(5, 4)
    /\ d_in.t.price = 1603
    /\ d_out.edge = RSub(OfferCad, FairCad)
    /\ RLt(RZero, d_out.edge)


(* Properties of the tender decision: the unwind cost *)

\* the book of the decided offer shows a best bid and a best ask
BookUsable ==
    /\ d_in.book # BookError
    /\ d_in.book.bid # Missing
    /\ d_in.book.ask # Missing

\* best ask minus best bid in the common currency, never below zero; the
\* fixed fallback spread of the deciding program when the book is not usable
SpreadCad ==
    IF BookUsable
    THEN RMul(R(IF d_in.book.ask > d_in.book.bid
                THEN d_in.book.ask - d_in.book.bid ELSE 0, 1), d_in.secs.USD)
    ELSE R(IF d_pc = "bot" THEN BOT_FALLBACK_SPREAD
           ELSE BOOK_FALLBACK_SPREAD_CAD, 1)

\* half the spread plus half the per-share fee
ExecutionEstimate == RAdd(RDiv(SpreadCad, R(2, 1)), R(FEE_MARKET_PER_SHARE, 2))

\* the fixed cost of one conversion for each share of a block
ConversionPerShare == R(CONVERTER_COST, CONVERTER_BATCH)

\* C33: the unwind cost of every decided offer is the lesser of the
\* order-execution estimate, half the spread of the book in the common
\* currency plus half the per-share fee, and the conversion cost per share;
\* the spread is the fixed fallback when the book has no bid, no ask or could
\* not be fetched
C33_UnwindCostIsTheCheaper ==
    DecidedOnRows =>
        /\ REq(d_out.unwind_cost, RMin(ExecutionEstimate, ConversionPerShare))
        /\ RLe(d_out.unwind_cost, ExecutionEstimate)
        /\ RLe(d_out.unwind_cost, ConversionPerShare)
        /\ ~BookUsable => REq(d_out.unwind_cost, R(3, 1))

C33_Witness ==
    /\ DecidedOnRows
    /\ d_pc = "strategy"
    /\ d_in.book = [bid |-> 1996, ask |-> Missing]
    /\ d_in.secs.USD = R(5, 4)
    /\ REq(d_out.unwind_cost, R(3, 1))
    /\ RLt(d_out.unwind_cost, ConversionPerShare)

\* a wide book makes the conversion the cheaper way
C33_WitnessConversion ==
    /\ DecidedOnRows
    /\ d_pc = "bot"
    /\ d_in.book = [bid |-> 1980, ask |-> 2020]
    /\ REq(d_out.unwind_cost, ConversionPerShare)
    /\ RLt(ConversionPerShare, ExecutionEstimate)


(* Properties of the prices of a pass *)

\* the prices of a computed fair value are those of the set s
PricedFrom(s) ==
    /\ REq(d_out.fair, R(s.BULL + s.BEAR, 1))
    /\ REq(d_out.ritc, R(s.RITC, 1))
    /\ REq(d_out.fx, s.USD)

OfferOnRows ==
    /\ d_pc \in {"bot", "strategy"}
    /\ d_in.t.ticker = "RITC"
    /\ ~AnyMissing(d_in.secs)

\* the decision took the offer as one of side SELL: the engine buys, the edge
\* is fair value minus offer price
TakenAsSell ==
    /\ d_out.decision # "RAISE"
    /\ d_out.side = "SELL"
    /\ REq(d_out.edge, RSub(FairCad, OfferCad))

Converting == engine = "bot" /\ e_pc = "convert"

\* C37: the unwind always ends: whatever the venue answers, a conversion loop
\* that has begun is left after finitely many conversion attempts
C37_UnwindTerminates == Converting ~> ~Converting

\* the loop is left as soon as a conversion fails or the position read after it
\* is below one block
C37_LoopLeftOnFailureOrSmallPosition ==
    [][(Converting /\ Converting')
          => (e_unw'.last = "ok" /\ Abs(e_pos') >= CONVERTER_BATCH)]_vars

\* a position of one block and a half that the conversions reported as done
\* have left as it was
C37_Witness ==
    /\ Converting
    /\ e_unw.convs = MaxConvs
    /\ e_unw.last = "ok"
    /\ e_unw.start = 15000
    /\ e_pos = 15000


(* Properties of the unwind: the direction and size of its orders *)

\* this step submits an order of the unwind of an accepted offer
UnwindOrderNow ==
    /\ e_pc = "slice"
    /\ e_slice.ticker = "RITC"
    /\ e_slice.ret \in {"offer", "regross"}
    /\ IssuedNow({"order"})

\* the order is on the side that brings the position last read nearer to
\* zero, and with it the unwind has placed no more than that position
ReducesPositionRead ==
    /\ e_pos # 0
    /\ e_slice.side = (IF e_pos > 0 THEN "SELL" ELSE "BUY")
    /\ e_slice.total - e_slice'.remaining <= Abs(e_pos)

\* C38: every order of an unwind is on the side opposite to the sign of the
\* composite position read last, SELL when long and BUY when short, and the
\* quantity an unwind places in all is at most the size of that position
C38_UnwindOnlyReduces == [][UnwindOrderNow => ReducesPositionRead]_vars

\* the same for the single-file bot alone, which reads the position before
\* it sizes the orders
C38_BotUnwindOnlyReduces ==
    [][(engine = "bot" /\ UnwindOrderNow) => ReducesPositionRead]_vars

\* the modular trader buying 5000 RITC to unwind an offer it sold into, with
\* a long position of 5000 in the rows it read last
C38_TraderBuysWhenLong ==
    /\ engine = "trader"
    /\ e_pos = 5000
    /\ e_cur.t.action = "BUY" /\ e_cur.sent = "accept" /\ e_cur.ok
    /\ e_slice.side = "BUY" /\ e_slice.total = 5000 /\ e_slice.remaining = 0
    /\ \E i \in DOMAIN e_log : e_log[i].op = "order" /\ e_log[i].side = "BUY"


(* Properties of the trader: the gross guard *)

\* this step of the trader resolves an offer its strategy would take
TraderTakes ==
    /\ engine = "trader" /\ e_pc = "tenders"
    /\ e_cur' # e_cur
    /\ e_cur'.decision = "ACCEPT"

\* the gross the offer would bring about stays within the limit
WithinGross == e_gross + 2 * Abs(e_cur'.t.quantity) <= e_gross_limit

\* C39: the trader sends the accept for an offer exactly when gross + 2 *
\* |quantity| <= gross limit and the decline otherwise; the gross is that of
\* the positions fetched last, the composite counted twice, and those
\* positions were fetched after the last acceptance and its orders
C39_GrossGuard ==
    [][TraderTakes =>
         /\ WithinGross => e_cur'.sent = "accept"
         /\ ~WithinGross => (e_cur'.sent = "decline" /\ e_cur'.guard)
         /\ \E rows \in PositionRows :
              /\ rows.RITC = e_pos
              /\ e_gross = 2 * Abs(rows.RITC) + Abs(rows.BULL) + Abs(rows.BEAR)
         /\ e_fresh]_vars

\* with a gross of 20000 at a limit of 20000 an offer of 5000 is declined by
\* the guard
C39_Witness ==
    /\ engine = "trader"
    /\ e_gross = 20000 /\ e_gross_limit = 20000 /\ e_pos = 5000
    /\ e_cur.decision = "ACCEPT" /\ e_cur.guard /\ e_cur.sent = "decline"
    /\ e_cur.t.quantity = 5000

\* with a gross of 10000 at that limit the same offer is accepted
C39_WitnessAccepted ==
    /\ engine = "trader"
    /\ e_gross = 10000 /\ e_gross_limit = 20000
    /\ e_cur.decision = "ACCEPT" /\ e_cur.sent = "accept" /\ e_cur.ok
    /\ e_cur.t.quantity = 5000


(* Properties of the volatility subsystem: the option gross guard *)

\* C40: no option order is submitted when the option gross plus the size of
\* the order would exceed MAX_OPTION_GROSS; the size of every order is at
\* least 1 and at most MAX_CONTRACTS_ORDER; and the option gross tracked
\* through the placements of a tick that began at or below MAX_OPTION_GROSS
\* never exceeds it
C40_OptionGrossGuard ==
    d_pc \in {"signals", "raised"} =>
        /\ d_out.sent => d_out.before + d_out.size <= MAX_OPTION_GROSS
        /\ d_out.sent => (d_out.size >= 1 /\ d_out.size <= MAX_CONTRACTS_ORDER)
        /\ d_in.start <= MAX_OPTION_GROSS => d_out.gross <= MAX_OPTION_GROSS
        /\ d_out.gross \in {d_out.before, d_out.before + d_out.size}

\* an order of 100 contracts that takes the gross from 2400 to the limit
C40_Witness ==
    /\ d_pc = "signals"
    /\ d_out.sent
    /\ d_out.before = 2400 /\ d_out.size = MAX_CONTRACTS_ORDER
    /\ d_out.gross = MAX_OPTION_GROSS

\* an order refused at a gross of 2450 for a size of 100
C40_WitnessRefused ==
    /\ d_pc = "signals"
    /\ d_in.left < MaxSignals
    /\ ~d_out.sent
    /\ d_out.before = 2450 /\ d_out.size = MAX_CONTRACTS_ORDER
    /\ d_out.gross = 2450

=============================================================================
